---- MODULE Spec2Model ----
(***************************************************************************)
(* linear-github-sync: one-way synchronisation of issue assignee and       *)
(* priority from GitHub (source) to Linear (destination).                  *)
(*                                                                         *)
(* Two programs are modelled: syncGithubAssignee.ts (mode "assignee") and  *)
(* the priority sync script (mode "priority").  A run is a single thread   *)
(* of control; every await of a network call is one step of the model.     *)
(*                                                                         *)
(* Strings are sequences of one-character strings, so that toLowerCase,    *)
(* trim, includes and template formatting are computed, not assumed.       *)
(***************************************************************************)
EXTENDS Integers, Sequences, FiniteSets, TLC

(***************************************************************************)
(* JavaScript strings                                                      *)
(***************************************************************************)

\* null / undefined of an optional string: a sequence no real string equals
\* (real strings hold one-character elements only).
NULL == <<"null">>

UpperChars == <<"A","B","C","D","E","F","G","H","I","J","K","L","M",
                "N","O","P","Q","R","S","T","U","V","W","X","Y","Z">>
LowerChars == <<"a","b","c","d","e","f","g","h","i","j","k","l","m",
                "n","o","p","q","r","s","t","u","v","w","x","y","z">>

LowerChar(c) ==
  IF \E n \in DOMAIN UpperChars : UpperChars[n] = c
  THEN LowerChars[CHOOSE n \in DOMAIN UpperChars : UpperChars[n] = c]
  ELSE c

\* String.prototype.toLowerCase
toLowerCase(s) == [n \in DOMAIN s |-> LowerChar(s[n])]

\* String.prototype.includes
includes(s, sub) ==
  \E n \in 0..(Len(s) - Len(sub)) : SubSeq(s, n + 1, n + Len(sub)) = sub

IsSpace(c) == c = " "

\* String.prototype.trim
trim(s) ==
  LET keep == {n \in DOMAIN s : ~IsSpace(s[n])} IN
  IF keep = {} THEN <<>>
  ELSE LET lo == CHOOSE n \in keep : \A m \in keep : n <= m
           hi == CHOOSE n \in keep : \A m \in keep : m <= n
       IN SubSeq(s, lo, hi)

\* !x for an optional string: null, undefined and "" are falsy
Falsy(s) == s = NULL \/ s = <<>>

Digits == <<"0","1","2","3","4","5","6","7","8","9">>

\* Number -> decimal string, as a template literal `${n}` formats it
RECURSIVE ToDecimal(_)
ToDecimal(n) ==
  IF n < 10 THEN <<Digits[n + 1]>>
  ELSE ToDecimal(n \div 10) \o <<Digits[(n % 10) + 1]>>

(***************************************************************************)
(* Field translator: priority                                              *)
(***************************************************************************)

\* Plausible slip: the label is searched without lower-casing it first.
mapGithubPriorityToLinear_NoLower(githubPriority) ==
  IF Falsy(githubPriority) THEN 0
  ELSE IF includes(githubPriority, <<"p","1">>) THEN 1
  ELSE IF includes(githubPriority, <<"p","2">>) THEN 2
  ELSE IF includes(githubPriority, <<"p","3">>) THEN 3
  ELSE 0

mapGithubPriorityToLinear(githubPriority) ==
  IF Falsy(githubPriority) THEN 0
  ELSE LET priorityLower == toLowerCase(githubPriority) IN
       IF includes(priorityLower, <<"p","1">>) THEN 1
       ELSE IF includes(priorityLower, <<"p","2">>) THEN 2
       ELSE IF includes(priorityLower, <<"p","3">>) THEN 3
       ELSE 0

(***************************************************************************)
(* Identity resolver                                                       *)
(***************************************************************************)

\* string | null for an opaque identifier (ids are non-empty strings)
NoId == "null"

\* A JavaScript Map kept as its entry list, in insertion order.  Map.set on a
\* key already present replaces the value and keeps the entry's position.
MapHas(m, key) == \E n \in DOMAIN m : m[n].key = key

MapGet(m, key) == m[CHOOSE n \in DOMAIN m : m[n].key = key].val

MapSet(m, key, val) ==
  IF MapHas(m, key)
  THEN [n \in DOMAIN m |-> IF m[n].key = key THEN [key |-> key, val |-> val] ELSE m[n]]
  ELSE Append(m, [key |-> key, val |-> val])

\* One iteration of the loop of getLinearUsers: index the actor by its
\* lower-cased email (when it has one) and by its lower-cased name.
IndexUser(m, userData) ==
  LET byEmail == IF Falsy(userData.email) THEN m
                 ELSE MapSet(m, toLowerCase(userData.email), userData)
  IN MapSet(byEmail, toLowerCase(userData.name), userData)

RECURSIVE BuildUserMap(_, _)
BuildUserMap(m, nodes) ==
  IF nodes = <<>> THEN m
  ELSE BuildUserMap(IndexUser(m, Head(nodes)), Tail(nodes))

\* getLinearUsers, given the outcome of linearClient.users(): the index on
\* success, an empty Map when the call fails.
getLinearUsers(ok, nodes) == IF ok THEN BuildUserMap(<<>>, nodes) ELSE <<>>

\* getGitHubUserDetails on success: name and email are `x || undefined`.
GitHubUserDetails(user) ==
  [login |-> user.login,
   name  |-> IF Falsy(user.name) THEN NULL ELSE user.name,
   email |-> IF Falsy(user.email) THEN NULL ELSE user.email]

\* USER_MAPPING[login]: the table is a function on the handles it overrides.
MappingOf(table, login) == IF login \in DOMAIN table THEN table[login] ELSE NULL

\* The loop over linearUsers.entries(): the first entry whose actor name is
\* the override value, or whose key is the lower-cased override value.
OverrideLookup(m, linearUserName) ==
  LET hits == {n \in DOMAIN m : m[n].val.name = linearUserName
                                \/ m[n].key = toLowerCase(linearUserName)}
  IN IF hits = {} THEN NoId
     ELSE m[CHOOSE n \in hits : \A h \in hits : n <= h].val.id

\* The fallback chain: email, then display name, then the handle.
FallbackLookup(githubUser, m) ==
  LET byEmail == IF ~Falsy(githubUser.email) /\ MapHas(m, toLowerCase(githubUser.email))
                 THEN MapGet(m, toLowerCase(githubUser.email)).id ELSE NoId
      byName  == IF byEmail = NoId /\ ~Falsy(githubUser.name)
                    /\ MapHas(m, toLowerCase(githubUser.name))
                 THEN MapGet(m, toLowerCase(githubUser.name)).id ELSE byEmail
  IN IF byName = NoId /\ MapHas(m, toLowerCase(githubUser.login))
     THEN MapGet(m, toLowerCase(githubUser.login)).id ELSE byName

CachePut(cache, login, id) ==
  [l \in DOMAIN cache \cup {login} |-> IF l = login THEN id ELSE cache[l]]

\* Plausible slip: the cache is written but never read.
matchUserByNameOrEmail_NoCacheRead(githubUser, m, table, cache) ==
  LET v  == MappingOf(table, githubUser.login)
      ov == IF Falsy(v) THEN NoId ELSE OverrideLookup(m, v)
      id == IF ov # NoId THEN ov ELSE FallbackLookup(githubUser, m)
  IN [id |-> id,
      cache |-> IF id = NoId THEN cache ELSE CachePut(cache, githubUser.login, id)]

\* Plausible slip: the email/name/handle chain is consulted before the
\* override table.
matchUserByNameOrEmail_FallbackFirst(githubUser, m, table, cache) ==
  IF githubUser.login \in DOMAIN cache
  THEN [id |-> cache[githubUser.login], cache |-> cache]
  ELSE LET fb == FallbackLookup(githubUser, m)
           v  == MappingOf(table, githubUser.login)
           ov == IF Falsy(v) THEN NoId ELSE OverrideLookup(m, v)
           id == IF fb # NoId THEN fb ELSE ov
       IN [id |-> id,
           cache |-> IF id = NoId THEN cache ELSE CachePut(cache, githubUser.login, id)]

\* matchUserByNameOrEmail: the id returned and the cache it leaves.
matchUserByNameOrEmail(githubUser, m, table, cache) ==
  IF githubUser.login \in DOMAIN cache
  THEN [id |-> cache[githubUser.login], cache |-> cache]
  ELSE LET v  == MappingOf(table, githubUser.login)
           ov == IF Falsy(v) THEN NoId ELSE OverrideLookup(m, v)
           id == IF ov # NoId THEN ov ELSE FallbackLookup(githubUser, m)
       IN [id |-> id,
           cache |-> IF id = NoId THEN cache ELSE CachePut(cache, githubUser.login, id)]

(***************************************************************************)
(* Bounds of the model                                                     *)
(***************************************************************************)

MaxSrc == 2        \* open source issues in the repository (run specification)
MaxDst == 3        \* destination issues in the workspace (run specification)
MaxFailures == 2   \* transport failures injected over a behaviour
MaxLabelLen == 4   \* length of a priority label (translator specification)
MaxActors == 2     \* destination actors (resolver specification)
MaxPages == 3      \* non-empty pages of the source listing (collector specification)
MaxTeams == 2      \* teams of the workspace (team lookup specification)

(***************************************************************************)
(* State                                                                   *)
(***************************************************************************)

VARIABLES
  \* configuration: process.env, the USER_MAPPING table, which script runs
  mode, env, USER_MAPPING,
  \* GitHub, the source tracker
  ghPages, ghQuota, ghProject,
  \* Linear, the destination tracker
  linTeams, linUsers, linIssues,
  \* the running script: position, exit status and locals
  pc, exitCode, teamId, linearUsers, userMappingCache, rateRemaining, page,
  githubIssues, issues, projectCards, col, i, allMatchingIssues, linearUserId,
  j, updates, k,
  \* history: which run this is, the network calls made, the failures injected,
  \* the outcome of each update intent, the destination when the run began,
  \* what the first run collected and did
  run, trace, failures, execLog, linIssues0, firstRun,
  \* argument and result of a pure function applied on its own
  fnArg, fnRes

cfgVars == <<mode, env, USER_MAPPING>>
ghVars == <<ghPages, ghQuota, ghProject>>
linVars == <<linTeams, linUsers, linIssues>>
collectVars == <<rateRemaining, page, githubIssues, issues, projectCards, col>>
planVars == <<i, allMatchingIssues, linearUserId, j, updates>>
execVars == <<k, execLog>>
fnVars == <<fnArg, fnRes>>
vars == <<mode, env, USER_MAPPING, ghPages, ghQuota, ghProject, linTeams, linUsers,
          linIssues, pc, exitCode, teamId, linearUsers, userMappingCache,
          rateRemaining, page, githubIssues, issues, projectCards, col, i,
          allMatchingIssues, linearUserId, j, updates, k, run, trace,
          failures, execLog, linIssues0, firstRun, fnArg, fnRes>>

(***************************************************************************)
(* Configuration                                                           *)
(***************************************************************************)

RequiredKeys == {"linearApiKey", "githubToken", "teamKey", "owner", "repo", "projectNumber"}

\* Values of the environment variables when they are set.
OwnerName == <<"o">>
RepoName == <<"r">>
TeamKeyENG == <<"E","N","G">>
TeamNameEng == <<"E","n","g">>
TeamKeyLower == <<"e","n","g">>
SetValue(key) ==
  CASE key = "owner" -> OwnerName
    [] key = "repo" -> RepoName
    [] key = "teamKey" -> TeamKeyENG
    [] OTHER -> <<"v">>

\* Plausible slip: GITHUB_PROJECT_NUMBER is left out of the check.
ConfigMissing_NoProject(e) ==
  (Falsy(e.linearApiKey) \/ Falsy(e.githubToken))
  \/ (Falsy(e.teamKey) \/ Falsy(e.owner) \/ Falsy(e.repo))

\* The two top-level checks: either one ends the process with status 1.
ConfigMissing(e) ==
  (Falsy(e.linearApiKey) \/ Falsy(e.githubToken))
  \/ (Falsy(e.teamKey) \/ Falsy(e.owner) \/ Falsy(e.repo) \/ Falsy(e.projectNumber))

\* `${validOwner}/${validRepo}/issues/${githubIssue.number}`
issueNumberPattern(e, number) ==
  e.owner \o <<"/">> \o e.repo \o <<"/","i","s","s","u","e","s","/">> \o ToDecimal(number)

(***************************************************************************)
(* The two trackers as the scripts see them                                *)
(***************************************************************************)

\* octokit.rest.issues.listForRepo({state: "open", page}): the open issues and
\* pull requests of the repository, one page at a time; past the last page
\* the listing is empty.
ListForRepo(pg) == IF pg \in DOMAIN ghPages THEN ghPages[pg] ELSE <<>>

\* octokit.rest.users.getByUsername: the profile behind a handle.
GhUserOf(login) ==
  CASE login = <<"a","l">> -> [login |-> login, name |-> <<"A","L">>, email |-> <<"A","@">>]
    [] login = <<"b","o">> -> [login |-> login, name |-> <<>>, email |-> NULL]
    [] OTHER -> [login |-> login, name |-> <<"C","y">>, email |-> <<"c","@">>]

\* StringComparator of the Linear API: `eq` and `contains` compare exactly
\* (the case-insensitive comparators are eqIgnoreCase / containsIgnoreCase).
\* A missing description contains nothing.
DescriptionContains(d, pattern) ==
  d.description # NULL /\ includes(d.description, pattern)

\* The filter passed to linearClient.issues by syncAssignees.
AssigneeFilter(d, team, title, pattern) ==
  /\ d.team = team
  /\ d.title = title
  /\ DescriptionContains(d, pattern)

\* Plausible slip: the priority sync sends the filter of the assignee sync.
PriorityFilter_AnyState(d, team, title, pattern) ==
  /\ d.team = team
  /\ d.title = title
  /\ DescriptionContains(d, pattern)

\* The filter passed to linearClient.issues by syncPriorities.
PriorityFilter(d, team, title, pattern) ==
  /\ d.team = team
  /\ d.stateType # "completed"
  /\ d.title = title
  /\ DescriptionContains(d, pattern)

\* Plausible slip: the source title is sent untrimmed.
MatchingIssues_NoTrim(all, m, team, e, githubIssue) ==
  LET pattern == issueNumberPattern(e, githubIssue.number) IN
  IF m = "assignee"
  THEN SelectSeq(all, LAMBDA d : AssigneeFilter(d, team, githubIssue.title, pattern))
  ELSE SelectSeq(all, LAMBDA d : PriorityFilter(d, team, githubIssue.title, pattern))

\* allMatchingIssues.nodes: the destination issues the query for one source
\* issue returns.
MatchingIssues(all, m, team, e, githubIssue) ==
  LET pattern == issueNumberPattern(e, githubIssue.number)
      title == trim(githubIssue.title)
  IN IF m = "assignee"
     THEN SelectSeq(all, LAMBDA d : AssigneeFilter(d, team, title, pattern))
     ELSE SelectSeq(all, LAMBDA d : PriorityFilter(d, team, title, pattern))

\* Plausible slip: the team is looked up ignoring case.
FindTeam_IgnoreCase(teams, teamKeyOrName) ==
  LET hits == {n \in DOMAIN teams :
                 \/ toLowerCase(teams[n].name) = toLowerCase(teamKeyOrName)
                 \/ toLowerCase(teams[n].key) = toLowerCase(teamKeyOrName)}
  IN IF hits = {} THEN NoId
     ELSE teams[CHOOSE n \in hits : \A h \in hits : n <= h].id

\* teams.nodes.find(team => team.name === teamKeyOrName || team.key === teamKeyOrName)
FindTeam(teams, teamKeyOrName) ==
  LET hits == {n \in DOMAIN teams : teams[n].name = teamKeyOrName
                                    \/ teams[n].key = teamKeyOrName}
  IN IF hits = {} THEN NoId
     ELSE teams[CHOOSE n \in hits : \A h \in hits : n <= h].id

\* issue.update({assigneeId}) / issue.update({priority}) on the destination.
ApplyUpdate_BothFields(all, m, update) ==
  [n \in DOMAIN all |->
     IF all[n].id = update.linearIssue
     THEN [all[n] EXCEPT !.assigneeId = IF m = "assignee" THEN update.new ELSE NoId,
                         !.priority = IF m = "priority" THEN update.new ELSE 0]
     ELSE all[n]]

ApplyUpdate(all, m, update) ==
  [n \in DOMAIN all |->
     IF all[n].id = update.linearIssue
     THEN IF m = "assignee"
          THEN [all[n] EXCEPT !.assigneeId = update.new]
          ELSE [all[n] EXCEPT !.priority = update.new]
     ELSE all[n]]

(***************************************************************************)
(* Source collectors: the part that is computed from a response            *)
(***************************************************************************)

\* Sequence map.
MapSeq(s, F(_)) == [n \in DOMAIN s |-> F(s[n])]

\* getIssuesWithAssignee, the loop over one page: pull requests and issues
\* without an assignee are left out.
pageAssigned(pageIssues) ==
  MapSeq(SelectSeq(pageIssues, LAMBDA x : ~x.pull_request /\ x.assignee # NULL),
         LAMBDA x : [number |-> x.number, title |-> x.title, assignee |-> x.assignee])

\* Plausible slip: the loop stops at the threshold of the warning printed
\* before it.
QuotaStop_Warning(remaining) == remaining < 50

\* After a page: stop once the rate-limit figure read before the loop is under 10.
QuotaStop(remaining) == remaining < 10

PriorityFieldName == <<"P","r","i","o">>
NONE == <<"n","o","n","e">>

\* Plausible slip: every item with a value in the priority field is kept.
hasPriorityToken_Any(priority) == TRUE

\* The test on the value of the priority field: p1, p2 or p3, in any case.
hasPriorityToken(priority) ==
  \/ includes(toLowerCase(priority), <<"p","1">>)
  \/ includes(toLowerCase(priority), <<"p","2">>)
  \/ includes(toLowerCase(priority), <<"p","3">>)

\* The value of the priority field of a project item, NULL when it has none.
itemPriority(item) ==
  LET hits == {n \in DOMAIN item.fieldValues :
                 item.fieldValues[n].field = PriorityFieldName}
  IN IF hits = {} THEN NULL
     ELSE item.fieldValues[CHOOSE n \in hits : \A h \in hits : n <= h].name

\* getIssuesWithPriority, the loop over the project items.
projectItemsWithPriority(e, items) ==
  MapSeq(SelectSeq(items, LAMBDA it :
            /\ it.repository = e.repo
            /\ it.number # 0 /\ it.title # NULL
            /\ ~Falsy(itemPriority(it))
            /\ hasPriorityToken(itemPriority(it))),
         LAMBDA it : [number |-> it.number, title |-> it.title,
                      priority |-> itemPriority(it)])

\* The first n elements of a listing.
first(s, n) == SubSeq(s, 1, IF Len(s) < n THEN Len(s) ELSE n)

\* items(first: 50): the query asks for the first 50 items of the project,
\* once.
ItemsFirst == 50

\* getIssuesWithPriority once the GraphQL query has answered.
graphqlCollected(e, project) ==
  IF ~project.fieldPresent THEN <<>>
  ELSE projectItemsWithPriority(e, first(project.items, ItemsFirst))

RECURSIVE FromDecimal(_)
FromDecimal(ds) ==
  IF ds = <<>> THEN 0
  ELSE 10 * FromDecimal(SubSeq(ds, 1, Len(ds) - 1))
       + ((CHOOSE n \in DOMAIN Digits : Digits[n] = ds[Len(ds)]) - 1)

IsDigit(c) == \E n \in DOMAIN Digits : Digits[n] = c

\* card.content_url.match(/\/issues\/(\d+)$/): the number, 0 when no match.
contentIssueNumber(url) ==
  LET marker == <<"/","i","s","s","u","e","s","/">>
      starts == {n \in 1..Len(url) :
                   /\ n > Len(marker)
                   /\ SubSeq(url, n - Len(marker), n - 1) = marker
                   /\ \A q \in n..Len(url) : IsDigit(url[q])}
  IN IF url = NULL \/ starts = {} THEN 0
     ELSE FromDecimal(SubSeq(url, CHOOSE n \in starts : TRUE, Len(url)))

columnPriority(name) ==
  LET columnNameLower == toLowerCase(name) IN
  IF includes(columnNameLower, <<"p","1">>) THEN <<"P","1">>
  ELSE IF includes(columnNameLower, <<"p","2">>) THEN <<"P","2">>
  ELSE IF includes(columnNameLower, <<"p","3">>) THEN <<"P","3">>
  ELSE NONE

\* The loop over the cards of one column.  Every card of the column carries
\* the column's priority, so the loop leaves the list as follows: an issue
\* already recorded keeps its priority unless that priority is "none" and the
\* column has one; the issues not yet recorded are appended in the order of
\* their first card.
addCards(cards, name, columnCards) ==
  LET priority == columnPriority(name)
      numbers == [n \in DOMAIN columnCards |-> contentIssueNumber(columnCards[n])]
      existingCard(number) == \E n \in DOMAIN cards : cards[n].issueNumber = number
      updated == [n \in DOMAIN cards |->
                    IF /\ cards[n].priority = NONE /\ priority # NONE
                       /\ \E q \in DOMAIN numbers : numbers[q] = cards[n].issueNumber
                    THEN [cards[n] EXCEPT !.priority = priority]
                    ELSE cards[n]]
      pushed == SelectSeq([n \in DOMAIN numbers |-> n], LAMBDA n :
                  /\ numbers[n] # 0 /\ ~existingCard(numbers[n])
                  /\ \A q \in 1..(n - 1) : numbers[q] # numbers[n])
  IN updated \o [n \in DOMAIN pushed |->
                   [issueNumber |-> numbers[pushed[n]], priority |-> priority]]

cardPriority(cards, number) ==
  LET hits == {n \in DOMAIN cards : cards[n].issueNumber = number} IN
  IF hits = {} THEN NONE
  ELSE cards[CHOOSE n \in hits : \A h \in hits : n <= h].priority

\* getIssuesWithPriorityREST, the final loop over the listed issues.
restCollected(listed, cards) ==
  MapSeq(SelectSeq(listed, LAMBDA x :
            ~x.pull_request /\ cardPriority(cards, x.number) # NONE),
         LAMBDA x : [number |-> x.number, title |-> x.title,
                     priority |-> cardPriority(cards, x.number)])

\* listCards({per_page: 50, page: 1})
CardsPerPage == 50

\* columns.slice(0, 5)
ColumnLimit == 5
scannedColumns(columns) ==
  SubSeq(columns, 1, IF Len(columns) < ColumnLimit THEN Len(columns) ELSE ColumnLimit)

(***************************************************************************)
(* Planner                                                                 *)
(***************************************************************************)

UpdateInfo(linearIssue, githubIssue, new, old) ==
  [linearIssue |-> linearIssue.id, githubIssue |-> githubIssue.number,
   new |-> new, old |-> old]

\* syncPriorities, the inner loop: one intent per matched issue whose priority
\* differs from the translated one.
planPriorities(matching, githubIssue) ==
  LET linearPriority == mapGithubPriorityToLinear(githubIssue.priority) IN
  MapSeq(SelectSeq(matching, LAMBDA d : d.priority # linearPriority),
         LAMBDA d : UpdateInfo(d, githubIssue, linearPriority, d.priority))

\* Plausible slip: an intent for every matched issue, same assignee or not.
planAssignee_NoDiff(planned, linearIssue, githubIssue, newAssigneeId) ==
  Append(planned, UpdateInfo(linearIssue, githubIssue, newAssigneeId,
                             linearIssue.assigneeId))

\* Plausible slip: the intent is put in front of the list (unshift for push).
planAssignee_Unshift(planned, linearIssue, githubIssue, newAssigneeId) ==
  IF linearIssue.assigneeId # newAssigneeId
  THEN <<UpdateInfo(linearIssue, githubIssue, newAssigneeId,
                    linearIssue.assigneeId)>> \o planned
  ELSE planned

\* syncAssignees, one turn of the inner loop: an intent when the current
\* assignee differs from the resolved one.
planAssignee(planned, linearIssue, githubIssue, newAssigneeId) ==
  IF linearIssue.assigneeId # newAssigneeId
  THEN Append(planned, UpdateInfo(linearIssue, githubIssue, newAssigneeId,
                                  linearIssue.assigneeId))
  ELSE planned

(***************************************************************************)
(* Initial states                                                          *)
(***************************************************************************)

RECURSIVE SeqsNoRep(_, _)
SeqsNoRep(S, n) ==
  IF n = 0 THEN {<<>>}
  ELSE {<<>>} \cup UNION {{<<x>> \o t : t \in SeqsNoRep(S \ {x}, n - 1)} : x \in S}

\* The sub-sequence of s at the positions in P, in order.
RECURSIVE Pick(_, _)
Pick(s, P) ==
  IF s = <<>> THEN <<>>
  ELSE LET rest == Pick(Tail(s), {q - 1 : q \in P \ {1}}) IN
       IF 1 \in P THEN <<Head(s)>> \o rest ELSE rest

Link(owner, number) ==
  <<"g","/">> \o owner \o <<"/">> \o RepoName
  \o <<"/","i","s","s","u","e","s","/">> \o ToDecimal(number)

AL == <<"a","l">>
BO == <<"b","o">>
CY == <<"c","y">>

SrcIssue(number, title, assignee, pr, label) ==
  [number |-> number, title |-> title, assignee |-> assignee,
   pull_request |-> pr, label |-> label]

\* Open issues the repository may hold.
SrcPool ==
  { SrcIssue(1, <<"t">>, AL, FALSE, <<"P","1">>),
    SrcIssue(12, <<" ","t">>, BO, FALSE, <<"p","2","-","x">>),
    SrcIssue(2, <<"T">>, CY, FALSE, <<"P","3">>),
    SrcIssue(3, <<"t">>, NULL, FALSE, <<"x">>) }

DstIssue(id, team, title, description, assigneeId, priority, stateType) ==
  [id |-> id, team |-> team, title |-> title, description |-> description,
   assigneeId |-> assigneeId, priority |-> priority, stateType |-> stateType]

\* Destination issues the workspace may hold, in the order the API lists them.
DstPool ==
  << DstIssue("L1", "T1", <<"t">>, Link(OwnerName, 1), "U1", 1, "started"),
     DstIssue("L12", "T1", <<"t">>, Link(OwnerName, 12), NoId, 0, "started"),
     DstIssue("L1b", "T1", <<"t">>, Link(OwnerName, 1) \o <<" ">> \o Link(OwnerName, 12),
              "U2", 3, "completed"),
     DstIssue("L2", "T1", <<"T">>, Link(OwnerName, 2), NoId, 4, "started") >>

Teams ==
  << [id |-> "T0", name |-> <<"O","p","s">>, key |-> <<"O","P","S">>],
     [id |-> "T1", name |-> TeamNameEng, key |-> TeamKeyENG] >>

Actor(id, name, email) == [id |-> id, name |-> name, email |-> email]

\* Destination actors of the run specification.
Actors ==
  << Actor("U1", <<"A","l">>, <<"a","@">>), Actor("U2", <<"B","o">>, NULL) >>

EmptyTable == [l \in {} |-> NULL]
Table(login, value) == [l \in {login} |-> value]

FullEnv == [key \in RequiredKeys |-> SetValue(key)]

\* The project of the repository: a single-select priority field on the items
\* (Projects V2) and one column per label with the issues' cards (classic).
ItemOf(x) ==
  [repository |-> RepoName, number |-> x.number, title |-> x.title,
   fieldValues |-> << [field |-> <<"S">>, name |-> <<"d","o">>],
                      [field |-> PriorityFieldName, name |-> x.label] >>]

ContentUrl(number) ==
  <<"r","/">> \o RepoName \o <<"/","i","s","s","u","e","s","/">> \o ToDecimal(number)

ColumnNames == << <<"P","1">>, <<"p","2","-","x">>, <<"P","3">>, <<"x">> >>

ProjectOf(listed, present) ==
  [fieldPresent |-> present,
   items |-> MapSeq(SelectSeq(listed, LAMBDA x : ~x.pull_request), ItemOf),
   columns |-> MapSeq(ColumnNames, LAMBDA name :
                 [name |-> name,
                  cards |-> MapSeq(SelectSeq(listed, LAMBDA x : x.label = name),
                                   LAMBDA x : ContentUrl(x.number))])]

\* Locals of a script that has not started.
FreshRun ==
  /\ pc = "start" /\ exitCode = -1 /\ teamId = NoId
  /\ linearUsers = <<>> /\ userMappingCache = EmptyTable
  /\ rateRemaining = -1 /\ page = 0
  /\ githubIssues = <<>> /\ issues = <<>> /\ projectCards = <<>> /\ col = 0
  /\ i = 0 /\ allMatchingIssues = <<>> /\ linearUserId = NoId /\ j = 0
  /\ updates = <<>> /\ k = 0 /\ execLog = <<>>
  /\ trace = <<>>

NoFn == fnArg = NULL /\ fnRes = NULL

NoFirstRun == [pc |-> "none", githubIssues |-> <<>>, updates |-> <<>>, execLog |-> <<>>]

\* A run of either script against a small repository and workspace; with a
\* required setting missing the trackers are never consulted, so their
\* content is fixed.
Init ==
  /\ FreshRun /\ NoFn
  /\ run = 1 /\ failures = 0 /\ firstRun = NoFirstRun
  /\ mode \in {"assignee", "priority"}
  /\ USER_MAPPING = Table(AL, <<"A","@">>)
  /\ linTeams = Teams /\ linUsers = Actors
  /\ \/ /\ env \in {[FullEnv EXCEPT !.teamKey = t] : t \in {TeamKeyENG, TeamKeyLower}}
        /\ \E listed \in SeqsNoRep(SrcPool, MaxSrc) :
             /\ ghPages = IF listed = <<>> THEN <<>> ELSE <<listed>>
             /\ \E present \in BOOLEAN : ghProject = ProjectOf(listed, present)
        /\ ghQuota \in {9, 60}
        /\ \E P \in SUBSET DOMAIN DstPool :
             /\ Cardinality(P) <= MaxDst
             /\ linIssues = Pick(DstPool, P)
     \/ /\ env \in [RequiredKeys -> {NULL, <<>>, <<"v">>}]
        /\ \E key \in RequiredKeys : Falsy(env[key])
        /\ ghPages = <<>> /\ ghProject = ProjectOf(<<>>, TRUE) /\ ghQuota = 60
        /\ linIssues = <<>>
  /\ linIssues0 = linIssues

(***************************************************************************)
(* Network calls                                                           *)
(***************************************************************************)

\* A call may fail (transport error) while the failure budget lasts.
Outcomes == IF failures < MaxFailures THEN {TRUE, FALSE} ELSE {TRUE}

\* A REST call to GitHub: refused once the quota is used up.
GhOutcomes == IF ghQuota = 0 THEN {FALSE} ELSE Outcomes

\* Every call is logged with its argument, its outcome and the REST quota
\* GitHub had left when the request was made.
Called(op, arg, ok) ==
  trace' = Append(trace, [op |-> op, arg |-> arg, ok |-> ok, quota |-> ghQuota])

Linear(op, arg, ok) ==
  /\ Called(op, arg, ok)
  /\ failures' = IF ok THEN failures ELSE failures + 1
  /\ UNCHANGED ghVars

\* The rate-limit endpoint and the GraphQL endpoint do not draw on the REST quota.
GitHubFree(op, arg, ok) ==
  /\ Called(op, arg, ok)
  /\ failures' = IF ok THEN failures ELSE failures + 1
  /\ UNCHANGED ghVars

GitHubRest(op, arg, ok) ==
  /\ Called(op, arg, ok)
  /\ failures' = IF ok \/ ghQuota = 0 THEN failures ELSE failures + 1
  /\ ghQuota' = IF ghQuota > 0 THEN ghQuota - 1 ELSE 0
  /\ UNCHANGED <<ghPages, ghProject>>

NoCall == UNCHANGED <<trace, failures, ghVars>>

Frame == UNCHANGED <<cfgVars, linTeams, linUsers, run, firstRun, linIssues0, fnVars>>

(***************************************************************************)
(* Start-up, shared by both scripts                                        *)
(***************************************************************************)

\* Module top level: the required settings are checked before anything else.
CheckConfig ==
  /\ pc = "start"
  /\ IF ConfigMissing(env)
     THEN pc' = "exit" /\ exitCode' = 1
     ELSE pc' = "teams" /\ UNCHANGED exitCode
  /\ NoCall /\ Frame
  /\ UNCHANGED <<linIssues, teamId, linearUsers, userMappingCache, collectVars,
                 planVars, execVars>>

\* getTeamIdByKeyOrName: a failed call and an unknown team both exit with 1.
GetTeam ==
  /\ pc = "teams"
  /\ \E ok \in Outcomes :
       /\ Linear("linear.teams", 0, ok)
       /\ LET id == IF ok THEN FindTeam(linTeams, env.teamKey) ELSE NoId IN
          IF id = NoId
          THEN pc' = "exit" /\ exitCode' = 1 /\ UNCHANGED teamId
          ELSE /\ teamId' = id /\ UNCHANGED exitCode
               /\ pc' = IF mode = "assignee" THEN "users" ELSE "graphql"
  /\ Frame
  /\ UNCHANGED <<linIssues, linearUsers, userMappingCache, collectVars, planVars,
                 execVars>>

\* getLinearUsers: a failed call leaves an empty index.
GetUsers ==
  /\ pc = "users"
  /\ \E ok \in Outcomes :
       /\ Linear("linear.users", 0, ok)
       /\ linearUsers' = getLinearUsers(ok, linUsers)
  /\ pc' = "rateLimit"
  /\ Frame
  /\ UNCHANGED <<linIssues, exitCode, teamId, userMappingCache, collectVars,
                 planVars, execVars>>

(***************************************************************************)
(* getIssuesWithAssignee                                                   *)
(***************************************************************************)

\* Plausible slip: the catch returns what was collected so far.
CollectFailed_KeepPartial ==
  /\ UNCHANGED githubIssues
  /\ pc' = "collected"

\* The collector's catch: log and return [].
CollectFailed ==
  /\ githubIssues' = <<>>
  /\ pc' = "collected"

RateLimit ==
  /\ pc = "rateLimit"
  /\ \E ok \in Outcomes :
       /\ GitHubFree("github.rateLimit", 0, ok)
       /\ IF ok
          THEN /\ rateRemaining' = ghQuota /\ page' = 1
               /\ githubIssues' = <<>> /\ pc' = "page"
          ELSE CollectFailed /\ UNCHANGED <<rateRemaining, page>>
  /\ Frame
  /\ UNCHANGED <<linIssues, exitCode, teamId, linearUsers, userMappingCache,
                 issues, projectCards, col, planVars, execVars>>

\* One turn of the while loop: request a page, stop on an empty one, keep the
\* assigned issues, move to the next page unless the quota figure is low.
ListPage ==
  /\ pc = "page"
  /\ \E ok \in GhOutcomes :
       /\ GitHubRest("github.listForRepo", page, ok)
       /\ IF ~ok THEN CollectFailed /\ UNCHANGED page
          ELSE IF ListForRepo(page) = <<>>
          THEN pc' = "collected" /\ UNCHANGED <<githubIssues, page>>
          ELSE /\ githubIssues' = githubIssues \o pageAssigned(ListForRepo(page))
               /\ page' = page + 1
               /\ pc' = IF QuotaStop(rateRemaining) THEN "collected" ELSE "page"
  /\ Frame
  /\ UNCHANGED <<linIssues, exitCode, teamId, linearUsers, userMappingCache,
                 rateRemaining, issues, projectCards, col, planVars, execVars>>

(***************************************************************************)
(* getIssuesWithPriority and getIssuesWithPriorityREST                     *)
(***************************************************************************)

\* Plausible slip: the REST collector also takes over when the query returned
\* nothing to collect.
GraphQL_FallbackOnEmpty ==
  /\ pc = "graphql"
  /\ \E ok \in Outcomes :
       /\ GitHubFree("github.graphql", 0, ok)
       /\ IF ok /\ graphqlCollected(env, ghProject) # <<>>
          THEN githubIssues' = graphqlCollected(env, ghProject) /\ pc' = "collected"
          ELSE pc' = "restRate" /\ UNCHANGED githubIssues
  /\ Frame
  /\ UNCHANGED <<linIssues, exitCode, teamId, linearUsers, userMappingCache,
                 rateRemaining, page, issues, projectCards, col, planVars, execVars>>

\* The Projects V2 query; when it fails the REST collector takes over.
GraphQL ==
  /\ pc = "graphql"
  /\ \E ok \in Outcomes :
       /\ GitHubFree("github.graphql", 0, ok)
       /\ IF ok
          THEN githubIssues' = graphqlCollected(env, ghProject) /\ pc' = "collected"
          ELSE pc' = "restRate" /\ UNCHANGED githubIssues
  /\ Frame
  /\ UNCHANGED <<linIssues, exitCode, teamId, linearUsers, userMappingCache,
                 rateRemaining, page, issues, projectCards, col, planVars, execVars>>

RestRateLimit ==
  /\ pc = "restRate"
  /\ \E ok \in Outcomes :
       /\ GitHubFree("github.rateLimit", 0, ok)
       /\ IF ok
          THEN rateRemaining' = ghQuota /\ pc' = "restIssues" /\ UNCHANGED githubIssues
          ELSE CollectFailed /\ UNCHANGED rateRemaining
  /\ Frame
  /\ UNCHANGED <<linIssues, exitCode, teamId, linearUsers, userMappingCache,
                 page, issues, projectCards, col, planVars, execVars>>

\* listForRepo without a page: the first page only.
RestListIssues ==
  /\ pc = "restIssues"
  /\ \E ok \in GhOutcomes :
       /\ GitHubRest("github.listForRepo", 1, ok)
       /\ IF ok
          THEN issues' = ListForRepo(1) /\ pc' = "restProject" /\ UNCHANGED githubIssues
          ELSE CollectFailed /\ UNCHANGED issues
  /\ Frame
  /\ UNCHANGED <<linIssues, exitCode, teamId, linearUsers, userMappingCache,
                 rateRemaining, page, projectCards, col, planVars, execVars>>

RestGetProject ==
  /\ pc = "restProject"
  /\ \E ok \in GhOutcomes :
       /\ GitHubRest("github.projects.get", 0, ok)
       /\ IF ok
          THEN pc' = "restColumns" /\ UNCHANGED githubIssues
          ELSE CollectFailed
  /\ Frame
  /\ UNCHANGED <<linIssues, exitCode, teamId, linearUsers, userMappingCache,
                 rateRemaining, page, issues, projectCards, col, planVars, execVars>>

\* The collector's result once every scanned column has been read.
RestFinish(cards) ==
  /\ githubIssues' = restCollected(issues, cards)
  /\ pc' = "collected"

RestListColumns ==
  /\ pc = "restColumns"
  /\ \E ok \in GhOutcomes :
       /\ GitHubRest("github.projects.listColumns", 0, ok)
       /\ IF ~ok THEN CollectFailed /\ UNCHANGED <<projectCards, col>>
          ELSE /\ projectCards' = <<>> /\ col' = 1
               /\ IF scannedColumns(ghProject.columns) = <<>>
                  THEN RestFinish(<<>>)
                  ELSE pc' = "restCards" /\ UNCHANGED githubIssues
  /\ Frame
  /\ UNCHANGED <<linIssues, exitCode, teamId, linearUsers, userMappingCache,
                 rateRemaining, page, issues, planVars, execVars>>

\* One turn of the loop over the scanned columns.
RestListCards ==
  /\ pc = "restCards"
  /\ \E ok \in GhOutcomes :
       /\ GitHubRest("github.projects.listCards", col, ok)
       /\ IF ~ok THEN CollectFailed /\ UNCHANGED <<projectCards, col>>
          ELSE LET column == scannedColumns(ghProject.columns)[col]
                   cards == addCards(projectCards, column.name,
                                     first(column.cards, CardsPerPage))
               IN /\ projectCards' = cards /\ col' = col + 1
                  /\ IF col = Len(scannedColumns(ghProject.columns))
                     THEN RestFinish(cards)
                     ELSE pc' = "restCards" /\ UNCHANGED githubIssues
  /\ Frame
  /\ UNCHANGED <<linIssues, exitCode, teamId, linearUsers, userMappingCache,
                 rateRemaining, page, issues, planVars, execVars>>

(***************************************************************************)
(* syncAssignees / syncPriorities after collection                         *)
(***************************************************************************)

\* Nothing collected: the script returns.  Otherwise matching begins.
Collected ==
  /\ pc = "collected"
  /\ IF githubIssues = <<>>
     THEN pc' = "nothing" /\ exitCode' = 0 /\ UNCHANGED <<i, updates>>
     ELSE /\ pc' = IF mode = "assignee" THEN "batch" ELSE "match"
          /\ i' = 1 /\ updates' = <<>> /\ UNCHANGED exitCode
  /\ NoCall /\ Frame
  /\ UNCHANGED <<linIssues, teamId, linearUsers, userMappingCache, collectVars,
                 allMatchingIssues, linearUserId, j, execVars>>

\* The catch of the sync function: log, and the process ends normally.
Caught == pc' = "caught" /\ exitCode' = 0

\* syncAssignees only: one query for all patterns joined by "|"; its result
\* fills linearTaskMap, which nothing reads afterwards.
BatchQuery ==
  /\ pc = "batch"
  /\ \E ok \in Outcomes :
       /\ Linear("linear.issues.batch", 0, ok)
       /\ IF ok THEN pc' = "match" /\ UNCHANGED exitCode ELSE Caught
  /\ Frame
  /\ UNCHANGED <<linIssues, teamId, linearUsers, userMappingCache, collectVars,
                 planVars, execVars>>

\* Plausible slip: one try/catch around the whole loop, so a failed update
\* ends the batch.
execNext_AbortOnFailure(kk, n, ok) ==
  IF ~ok THEN "caught" ELSE IF kk = n THEN "done" ELSE "fetch"

\* The loop over the intents: its try/catch is inside the loop body, so the
\* loop goes on to the next intent whatever happened to this one.
execNext(kk, n, ok) == IF kk = n THEN "done" ELSE "fetch"

\* Plausible slip: the updates are executed as soon as some are planned, the
\* remaining source issues not yet matched.
Advance_ExecuteEarly(planned) ==
  /\ updates' = planned
  /\ i' = i + 1
  /\ IF planned # <<>>
     THEN pc' = "fetch" /\ k' = 1 /\ UNCHANGED exitCode
     ELSE IF i < Len(githubIssues)
     THEN pc' = "match" /\ UNCHANGED <<k, exitCode>>
     ELSE pc' = "done" /\ exitCode' = 0 /\ UNCHANGED k

\* The end of one turn of the loop over the source issues: the next issue, or
\* the loop over the planned updates.
Advance(planned) ==
  /\ updates' = planned
  /\ i' = i + 1
  /\ IF i < Len(githubIssues)
     THEN pc' = "match" /\ UNCHANGED <<k, exitCode>>
     ELSE IF planned = <<>>
     THEN pc' = "done" /\ exitCode' = 0 /\ UNCHANGED k
     ELSE pc' = "fetch" /\ k' = 1 /\ UNCHANGED exitCode

\* The query for one source issue.  syncPriorities plans at once; syncAssignees
\* first resolves the assignee.
MatchQuery ==
  /\ pc = "match"
  /\ LET githubIssue == githubIssues[i] IN
     \E ok \in Outcomes :
       /\ Linear("linear.issues", githubIssue.number, ok)
       /\ IF ~ok
          THEN Caught /\ UNCHANGED <<i, updates, k, allMatchingIssues>>
          ELSE LET nodes == MatchingIssues(linIssues, mode, teamId, env, githubIssue) IN
               /\ allMatchingIssues' = nodes
               /\ IF nodes = <<>> THEN Advance(updates)
                  ELSE IF mode = "priority"
                  THEN Advance(updates \o planPriorities(nodes, githubIssue))
                  ELSE pc' = "details" /\ UNCHANGED <<i, updates, k, exitCode>>
  /\ Frame
  /\ UNCHANGED <<linIssues, teamId, linearUsers, userMappingCache, collectVars,
                 linearUserId, j, execLog>>

\* getGitHubUserDetails, then matchUserByNameOrEmail: no profile or no
\* destination actor skips the source issue.
ResolveAssignee ==
  /\ pc = "details"
  /\ LET githubIssue == githubIssues[i] IN
     \E ok \in GhOutcomes :
       /\ GitHubRest("github.getByUsername", githubIssue.number, ok)
       /\ IF ~ok
          THEN Advance(updates) /\ UNCHANGED <<userMappingCache, linearUserId, j>>
          ELSE LET r == matchUserByNameOrEmail(
                          GitHubUserDetails(GhUserOf(githubIssue.assignee)),
                          linearUsers, USER_MAPPING, userMappingCache) IN
               /\ userMappingCache' = r.cache
               /\ linearUserId' = r.id
               /\ IF r.id = NoId THEN Advance(updates) /\ UNCHANGED j
                  ELSE /\ j' = 1 /\ pc' = "assignee"
                       /\ UNCHANGED <<i, updates, k, exitCode>>
  /\ Frame
  /\ UNCHANGED <<linIssues, teamId, linearUsers, collectVars, allMatchingIssues,
                 execLog>>

\* One matched destination issue: its assignee, when it has one, is fetched
\* (a failure reaches the catch of the sync function), then compared.
PlanAssignee ==
  /\ pc = "assignee"
  /\ LET linearIssue == allMatchingIssues[j]
         planned == planAssignee(updates, linearIssue, githubIssues[i], linearUserId)
     IN \E ok \in (IF linearIssue.assigneeId = NoId THEN {TRUE} ELSE Outcomes) :
          /\ IF linearIssue.assigneeId = NoId THEN NoCall
             ELSE Linear("linear.user", j, ok)
          /\ IF ~ok THEN Caught /\ UNCHANGED <<i, j, updates, k>>
             ELSE IF j < Len(allMatchingIssues)
             THEN /\ j' = j + 1 /\ updates' = planned /\ UNCHANGED <<pc, i, k, exitCode>>
             ELSE Advance(planned) /\ UNCHANGED j
  /\ Frame
  /\ UNCHANGED <<linIssues, teamId, linearUsers, userMappingCache, collectVars,
                 allMatchingIssues, linearUserId, execLog>>

\* Plausible slip: the success line is printed whatever the calls did.
ExecStep_AlwaysApplied(ok, outcome) ==
  /\ execLog' = Append(execLog, "applied")
  /\ k' = k + 1
  /\ pc' = execNext(k, Len(updates), ok)
  /\ exitCode' = IF pc' \in {"done", "caught"} THEN 0 ELSE exitCode

\* Plausible slip: an intent whose call failed is tried again.
ExecStep_RetryFailed(ok, outcome) ==
  /\ execLog' = Append(execLog, outcome)
  /\ k' = IF ok THEN k + 1 ELSE k
  /\ pc' = IF ok THEN execNext(k, Len(updates), ok) ELSE "fetch"
  /\ exitCode' = IF pc' \in {"done", "caught"} THEN 0 ELSE exitCode

\* The end of one turn of the loop over the planned updates.
ExecStep(ok, outcome) ==
  /\ execLog' = Append(execLog, outcome)
  /\ k' = k + 1
  /\ pc' = execNext(k, Len(updates), ok)
  /\ exitCode' = IF pc' \in {"done", "caught"} THEN 0 ELSE exitCode

\* linearClient.issue(id): a failure is caught inside the loop.
FetchIssue ==
  /\ pc = "fetch"
  /\ \E ok \in Outcomes :
       /\ Linear("linear.issue", k, ok)
       /\ IF ok THEN pc' = "update" /\ UNCHANGED <<k, execLog, exitCode>>
          ELSE ExecStep(ok, "failed")
  /\ Frame
  /\ UNCHANGED <<linIssues, teamId, linearUsers, userMappingCache, collectVars,
                 planVars>>

\* issue.update(...): the one write of a run.
UpdateIssue ==
  /\ pc = "update"
  /\ \E ok \in Outcomes :
       /\ Linear("linear.update", k, ok)
       /\ IF ok
          THEN linIssues' = ApplyUpdate(linIssues, mode, updates[k]) /\ ExecStep(ok, "applied")
          ELSE UNCHANGED linIssues /\ ExecStep(ok, "failed")
  /\ Frame
  /\ UNCHANGED <<teamId, linearUsers, userMappingCache, collectVars, planVars>>

Ended == pc \in {"done", "nothing", "caught", "exit"}

\* The script is started again once the first run has ended: a new process,
\* the same settings, the trackers as the first run left them.
SecondRun ==
  /\ Ended /\ run = 1
  /\ run' = 2
  /\ firstRun' = [pc |-> pc, githubIssues |-> githubIssues, updates |-> updates,
                  execLog |-> execLog]
  /\ linIssues0' = linIssues
  /\ pc' = "start" /\ exitCode' = -1 /\ teamId' = NoId
  /\ linearUsers' = <<>> /\ userMappingCache' = EmptyTable
  /\ rateRemaining' = -1 /\ page' = 0
  /\ githubIssues' = <<>> /\ issues' = <<>> /\ projectCards' = <<>> /\ col' = 0
  /\ i' = 0 /\ allMatchingIssues' = <<>> /\ linearUserId' = NoId /\ j' = 0
  /\ updates' = <<>> /\ k' = 0 /\ execLog' = <<>>
  /\ trace' = <<>>
  /\ UNCHANGED <<cfgVars, ghVars, linVars, failures, fnVars>>

Next ==
  \/ CheckConfig \/ GetTeam \/ GetUsers
  \/ RateLimit \/ ListPage
  \/ GraphQL \/ RestRateLimit \/ RestListIssues \/ RestGetProject
  \/ RestListColumns \/ RestListCards
  \/ Collected \/ BatchQuery \/ MatchQuery \/ ResolveAssignee \/ PlanAssignee
  \/ FetchIssue \/ UpdateIssue

\* One run of either script.
Spec == Init /\ [][Next]_vars

\* A run, and a second run once the first has ended.
NextTwice == Next \/ SecondRun

SpecTwice == Init /\ [][NextTwice]_vars

(***************************************************************************)
(* The priority translator on its own                                      *)
(***************************************************************************)

\* Trackers and settings of a specification that exercises one component.
Bench ==
  /\ env = FullEnv /\ linTeams = Teams
  /\ run = 1 /\ failures = 0 /\ firstRun = NoFirstRun
  /\ exitCode = -1 /\ rateRemaining = -1 /\ page = 0
  /\ issues = <<>> /\ projectCards = <<>> /\ col = 0
  /\ linearUserId = NoId /\ j = 0 /\ updates = <<>> /\ k = 0 /\ execLog = <<>>
  /\ trace = <<>> /\ userMappingCache = EmptyTable

LabelChars == {"p", "P", "1", "2", "3", "-"}

\* Labels up to MaxLabelLen characters, and the labels the documentation names.
Labels ==
  UNION {[1..n -> LabelChars] : n \in 0..MaxLabelLen}
  \cup { <<"p","1","-","u","r","g","e","n","t">>,
         <<"P","1"," ","-"," ","U","r","g","e","n","t">>,
         <<"H","i","g","h">> }

InitPrio ==
  /\ Bench
  /\ mode = "priority" /\ USER_MAPPING = EmptyTable
  /\ ghPages = <<>> /\ ghQuota = 60 /\ ghProject = ProjectOf(<<>>, TRUE)
  /\ linUsers = <<>> /\ linIssues = <<>> /\ linIssues0 = <<>>
  /\ teamId = NoId /\ linearUsers = <<>> /\ githubIssues = <<>>
  /\ i = 0 /\ allMatchingIssues = <<>>
  /\ pc = "translate"
  /\ fnArg \in Labels \cup {NULL}
  /\ fnRes = -1

Translate ==
  /\ pc = "translate"
  /\ fnRes' = mapGithubPriorityToLinear(fnArg)
  /\ pc' = "translated"
  /\ UNCHANGED <<cfgVars, ghVars, linVars, exitCode, teamId, linearUsers,
                 userMappingCache, collectVars, planVars, execVars, run, trace,
                 failures, linIssues0, firstRun, fnArg>>

SpecPrio == InitPrio /\ [][Translate]_vars

(***************************************************************************)
(* The identity resolver on its own                                        *)
(***************************************************************************)

\* Destination actors the workspace may hold: two plain ones, one whose name
\* is the email of another, one whose name differs from another's by case.
ActorPool ==
  { Actor("U1", <<"A","l">>, <<"a","@">>),
    Actor("U2", <<"B","o">>, <<"B","@">>),
    Actor("U3", <<"a","@">>, NULL),
    Actor("U4", <<"a","l">>, <<"c","@">>) }

Tables ==
  { EmptyTable, Table(AL, <<"B","o">>), Table(AL, <<"b","@">>),
    Table(AL, <<"z">>), Table(BO, <<"A","L">>) }

GitHubUsers ==
  { [login |-> l, name |-> n, email |-> e] :
      l \in {AL, BO}, n \in {NULL, <<"A","L">>, <<"a","@">>},
      e \in {NULL, <<"A","@">>, <<"b","@">>} }

InitResolve ==
  /\ Bench
  /\ mode = "assignee"
  /\ USER_MAPPING \in Tables
  /\ ghPages = <<>> /\ ghQuota = 60 /\ ghProject = ProjectOf(<<>>, TRUE)
  /\ linUsers \in SeqsNoRep(ActorPool, MaxActors)
  /\ linIssues = <<>> /\ linIssues0 = <<>>
  /\ teamId = "T1" /\ linearUsers = <<>> /\ githubIssues = <<>>
  /\ i = 0 /\ allMatchingIssues = <<>>
  /\ pc = "index"
  /\ fnArg = [login |-> NULL, name |-> NULL, email |-> NULL]
  /\ fnRes = NoId

\* getLinearUsers
IndexActors ==
  /\ pc = "index"
  /\ \E ok \in BOOLEAN : linearUsers' = getLinearUsers(ok, linUsers)
  /\ pc' = "resolve"
  /\ UNCHANGED <<cfgVars, ghVars, linVars, exitCode, teamId, userMappingCache,
                 collectVars, planVars, execVars, run, trace, failures,
                 linIssues0, firstRun, fnVars>>

\* matchUserByNameOrEmail for some profile; the cache is kept between calls.
Resolve ==
  /\ pc \in {"resolve", "resolved"}
  /\ \E githubUser \in GitHubUsers :
       LET r == matchUserByNameOrEmail(githubUser, linearUsers, USER_MAPPING,
                                       userMappingCache) IN
       /\ fnArg' = githubUser
       /\ fnRes' = r.id
       /\ userMappingCache' = r.cache
  /\ pc' = "resolved"
  /\ UNCHANGED <<cfgVars, ghVars, linVars, exitCode, teamId, linearUsers,
                 collectVars, planVars, execVars, run, trace, failures,
                 linIssues0, firstRun>>

SpecResolve == InitResolve /\ [][IndexActors \/ Resolve]_vars

(***************************************************************************)
(* The matching query on its own                                           *)
(***************************************************************************)

OtherOwner == <<"x","o">>

\* Descriptions a destination issue may carry: none, a link to one issue, to
\* two issues, to an issue of another owner's repository, free text.
Descriptions ==
  { NULL, Link(OwnerName, 1), Link(OwnerName, 12), Link(OwnerName, 2),
    Link(OwnerName, 1) \o <<" ">> \o Link(OwnerName, 2),
    Link(OtherOwner, 1), <<"t","o","d","o">> }

SrcTitles == { <<"t">>, <<" ","t">>, <<"t"," ">>, <<"T">> }
DstTitles == { <<"t">>, <<" ","t">>, <<"T">> }

\* One collected source issue, as each collector builds it.
CollectedIssue(m, number, title) ==
  IF m = "assignee"
  THEN [number |-> number, title |-> title, assignee |-> AL]
  ELSE [number |-> number, title |-> title, priority |-> <<"P","1">>]

\* The sync function about to query for its only collected issue, against a
\* workspace of one issue.
InitMatch ==
  /\ Bench
  /\ mode \in {"assignee", "priority"}
  /\ USER_MAPPING = EmptyTable
  /\ ghPages = <<>> /\ ghQuota = 60 /\ ghProject = ProjectOf(<<>>, TRUE)
  /\ linUsers = Actors /\ linearUsers = getLinearUsers(TRUE, Actors)
  /\ teamId = "T1"
  /\ \E number \in {1, 2, 12}, title \in SrcTitles :
       githubIssues = <<CollectedIssue(mode, number, title)>>
  /\ \E team \in {"T0", "T1"}, title \in DstTitles, description \in Descriptions,
        stateType \in {"started", "completed"} :
       linIssues = <<DstIssue("L1", team, title, description, NoId, 0, stateType)>>
  /\ linIssues0 = linIssues
  /\ i = 1 /\ allMatchingIssues = <<>>
  /\ pc = "match"
  /\ NoFn

SpecMatch == InitMatch /\ [][MatchQuery]_vars

(***************************************************************************)
(* The paginated collector on its own                                      *)
(***************************************************************************)

\* Pages the listing may return: issues with and without an assignee, and a
\* pull request.
PagePool ==
  { <<SrcIssue(1, <<"t">>, AL, FALSE, NULL)>>,
    <<SrcIssue(2, <<"T">>, CY, FALSE, NULL), SrcIssue(4, <<"t">>, BO, TRUE, NULL)>>,
    <<SrcIssue(3, <<"t">>, NULL, FALSE, NULL)>>,
    <<SrcIssue(12, <<" ","t">>, BO, FALSE, NULL)>> }

\* Requests GitHub may still allow when the collector starts.
Quotas == {0, 1, 2, 9, 10, 11, 12, 60}

\* syncAssignees about to call getIssuesWithAssignee.
InitCollect ==
  /\ Bench
  /\ mode = "assignee"
  /\ USER_MAPPING = EmptyTable
  /\ ghPages \in SeqsNoRep(PagePool, MaxPages)
  /\ ghQuota \in Quotas
  /\ ghProject = ProjectOf(<<>>, TRUE)
  /\ linUsers = Actors /\ linearUsers = getLinearUsers(TRUE, Actors)
  /\ linIssues = <<>> /\ linIssues0 = <<>>
  /\ teamId = "T1" /\ githubIssues = <<>>
  /\ i = 0 /\ allMatchingIssues = <<>>
  /\ pc = "rateLimit"
  /\ NoFn

SpecCollect == InitCollect /\ [][RateLimit \/ ListPage]_vars

\* The collector is one thread of control: a call that was awaited returns or
\* throws, and the loop takes its next turn.
SpecCollectLive ==
  InitCollect /\ [][RateLimit \/ ListPage]_vars
  /\ WF_vars(RateLimit) /\ WF_vars(ListPage)

(***************************************************************************)
(* The three collectors on their own                                       *)
(***************************************************************************)

\* Pages the listing may return, with the priority label each issue has in
\* the project.
LabelledPages ==
  { <<SrcIssue(1, <<"t">>, AL, FALSE, <<"P","1">>)>>,
    <<SrcIssue(2, <<"T">>, CY, FALSE, <<"P","3">>),
      SrcIssue(4, <<"t">>, BO, TRUE, <<"P","1">>)>>,
    <<SrcIssue(3, <<"t">>, NULL, FALSE, <<"x">>)>>,
    <<SrcIssue(12, <<" ","t">>, BO, FALSE, <<"p","2","-","x">>)>> }

\* A repository whose project holds one item more than one query returns.
LargeListing ==
  [n \in 1..(ItemsFirst + 1) |-> SrcIssue(n, <<"t">>, AL, FALSE, <<"P","1">>)]

RECURSIVE Flatten(_)
Flatten(pages) == IF pages = <<>> THEN <<>> ELSE Head(pages) \o Flatten(Tail(pages))

\* Either sync about to call its collector.
InitGather ==
  /\ Bench
  /\ mode \in {"assignee", "priority"}
  /\ USER_MAPPING = EmptyTable
  /\ \/ ghPages \in SeqsNoRep(LabelledPages, MaxPages)
     \/ ghPages = <<LargeListing>>
  /\ ghProject = ProjectOf(Flatten(ghPages), TRUE)
  /\ ghQuota \in {9, 10, 20, 60}
  /\ linUsers = Actors /\ linearUsers = getLinearUsers(TRUE, Actors)
  /\ linIssues = <<>> /\ linIssues0 = <<>>
  /\ teamId = "T1" /\ githubIssues = <<>>
  /\ i = 0 /\ allMatchingIssues = <<>>
  /\ pc = IF mode = "assignee" THEN "rateLimit" ELSE "graphql"
  /\ NoFn

Gather ==
  \/ RateLimit \/ ListPage
  \/ GraphQL \/ RestRateLimit \/ RestListIssues \/ RestGetProject
  \/ RestListColumns \/ RestListCards

SpecGather == InitGather /\ [][Gather]_vars

(***************************************************************************)
(* The priority sync from collection to planning                           *)
(***************************************************************************)

\* Open issues with the label each has in the project: recognised labels, an
\* unrecognised one, none.
LabelledIssues ==
  { SrcIssue(1, <<"t">>, NULL, FALSE, <<"P","1">>),
    SrcIssue(2, <<"t">>, NULL, FALSE, <<"P","3">>),
    SrcIssue(3, <<"t">>, NULL, FALSE, <<"x">>),
    SrcIssue(5, <<"t">>, NULL, FALSE, NULL) }

\* One destination issue per source issue above, with the priority it has now.
PrioritisedIssues ==
  << DstIssue("L1", "T1", <<"t">>, Link(OwnerName, 1), NoId, 2, "started"),
     DstIssue("L2", "T1", <<"t">>, Link(OwnerName, 2), NoId, 3, "started"),
     DstIssue("L3", "T1", <<"t">>, Link(OwnerName, 3), NoId, 2, "started"),
     DstIssue("L5", "T1", <<"t">>, Link(OwnerName, 5), NoId, 1, "started") >>

\* syncPriorities about to call getIssuesWithPriority.
InitPrioSync ==
  /\ Bench
  /\ mode = "priority"
  /\ USER_MAPPING = EmptyTable
  /\ \E listed \in SeqsNoRep(LabelledIssues, MaxSrc) :
       /\ ghPages = IF listed = <<>> THEN <<>> ELSE <<listed>>
       /\ ghProject = ProjectOf(listed, TRUE)
  /\ ghQuota = 60
  /\ linUsers = Actors /\ linearUsers = getLinearUsers(TRUE, Actors)
  /\ \E P \in SUBSET DOMAIN PrioritisedIssues : linIssues = Pick(PrioritisedIssues, P)
  /\ linIssues0 = linIssues
  /\ teamId = "T1" /\ githubIssues = <<>>
  /\ i = 0 /\ allMatchingIssues = <<>>
  /\ pc = "graphql"
  /\ NoFn

PrioSync ==
  \/ GraphQL \/ RestRateLimit \/ RestListIssues \/ RestGetProject
  \/ RestListColumns \/ RestListCards
  \/ Collected \/ MatchQuery

SpecPrioSync == InitPrioSync /\ [][PrioSync]_vars

(***************************************************************************)
(* The assignee sync from matching to planning                             *)
(***************************************************************************)

\* Collected issues: two of the same assignee, one of another.
AssignedIssues ==
  { [number |-> 1, title |-> <<"t">>, assignee |-> AL],
    [number |-> 2, title |-> <<"T">>, assignee |-> AL],
    [number |-> 12, title |-> <<" ","t">>, assignee |-> BO] }

\* syncAssignees after the batch query, about to match its first issue.
InitAssign ==
  /\ Bench
  /\ mode = "assignee"
  /\ USER_MAPPING \in {EmptyTable, Table(AL, <<"A","@">>)}
  /\ ghPages = <<>> /\ ghQuota = 60 /\ ghProject = ProjectOf(<<>>, TRUE)
  /\ linUsers \in {Actors, <<Actor("U2", <<"B","o">>, NULL)>>}
  /\ linearUsers = getLinearUsers(TRUE, linUsers)
  /\ \E P \in SUBSET DOMAIN DstPool :
       /\ Cardinality(P) <= MaxDst
       /\ linIssues = Pick(DstPool, P)
  /\ linIssues0 = linIssues
  /\ teamId = "T1"
  /\ githubIssues \in SeqsNoRep(AssignedIssues, MaxSrc) \ {<<>>}
  /\ i = 1 /\ allMatchingIssues = <<>>
  /\ pc = "match"
  /\ NoFn

Assign == MatchQuery \/ ResolveAssignee \/ PlanAssignee

SpecAssign == InitAssign /\ [][Assign]_vars

(***************************************************************************)
(* A run against a workspace whose teams vary                              *)
(***************************************************************************)

\* Teams the workspace may hold; the name of the last is the key of another.
TeamPool ==
  { [id |-> "T0", name |-> <<"O","p","s">>, key |-> <<"O","P","S">>],
    [id |-> "T1", name |-> TeamNameEng, key |-> TeamKeyENG],
    [id |-> "T2", name |-> TeamKeyENG, key |-> <<"E","2">>] }

\* Values LINEAR_TEAM_KEY may have: a key, a name, a key in another case, a
\* prefix of a key.
TeamSettings == {TeamKeyENG, TeamNameEng, TeamKeyLower, <<"E","N">>}

\* A run of either script: one assigned and labelled source issue, one
\* destination issue that references it and differs in both synced fields.
InitTeam ==
  /\ FreshRun /\ NoFn
  /\ run = 1 /\ failures = 0 /\ firstRun = NoFirstRun
  /\ mode \in {"assignee", "priority"}
  /\ USER_MAPPING = EmptyTable
  /\ env \in {[FullEnv EXCEPT !.teamKey = t] : t \in TeamSettings}
  /\ linTeams \in SeqsNoRep(TeamPool, MaxTeams)
  /\ linUsers = Actors
  /\ ghPages = << <<SrcIssue(1, <<"t">>, AL, FALSE, <<"P","1">>)>> >>
  /\ ghProject = ProjectOf(ghPages[1], TRUE)
  /\ ghQuota = 60
  /\ linIssues = <<DstIssue("L1", "T1", <<"t">>, Link(OwnerName, 1), "U2", 4, "started")>>
  /\ linIssues0 = linIssues

SpecTeam == InitTeam /\ [][Next]_vars

(***************************************************************************)
(* The REST collector against boards whose columns vary                    *)
(***************************************************************************)

\* Names of the columns of a board, in column order: with and without a
\* priority in the name, and a board of more columns than are read.
ColumnOrders ==
  { << <<"x">>, <<"P","1">>, <<"p","2","-","x">> >>,
    << <<"p","2","-","x">>, <<"x">>, <<"P","1">> >>,
    << <<"P","3">>, <<"x">>, <<"P","3">> >>,
    << <<"x">>, <<"x">>, <<"x">>, <<"x">>, <<"P","2">>, <<"P","1">> >> }

\* Cards a column may hold: none, the card of an issue, the cards of two, a
\* note and the card of an issue twice.
CardLists ==
  { <<>>, <<ContentUrl(1)>>, <<ContentUrl(2), ContentUrl(1)>>,
    <<ContentUrl(1), NULL, ContentUrl(1)>> }

\* A column of one card more than one request returns; the last card is the
\* card of issue 1.
LongColumn ==
  [n \in 1..(CardsPerPage + 1) |->
     ContentUrl(IF n = CardsPerPage + 1 THEN 1 ELSE n + 1)]

Boards ==
  UNION { { [c \in DOMAIN names |-> [name |-> names[c], cards |-> cards[c]]] :
              cards \in [DOMAIN names -> CardLists] } : names \in ColumnOrders }
  \cup { << [name |-> <<"P","1">>, cards |-> LongColumn],
            [name |-> <<"p","2","-","x">>, cards |-> <<ContentUrl(1)>>] >> }

\* getIssuesWithPriority has caught the failure of its query and calls
\* getIssuesWithPriorityREST.
InitCards ==
  /\ Bench
  /\ mode = "priority"
  /\ USER_MAPPING = EmptyTable
  /\ ghPages = << <<SrcIssue(1, <<"t">>, NULL, FALSE, NULL),
                    SrcIssue(2, <<"T">>, NULL, FALSE, NULL)>> >>
  /\ \E board \in Boards :
       ghProject = [fieldPresent |-> TRUE, items |-> <<>>, columns |-> board]
  /\ ghQuota = 60
  /\ linUsers = Actors /\ linearUsers = <<>>
  /\ linIssues = <<>> /\ linIssues0 = <<>>
  /\ teamId = "T1" /\ githubIssues = <<>>
  /\ i = 0 /\ allMatchingIssues = <<>>
  /\ pc = "restRate"
  /\ NoFn

Cards ==
  \/ RestRateLimit \/ RestListIssues \/ RestGetProject
  \/ RestListColumns \/ RestListCards

SpecCards == InitCards /\ [][Cards]_vars

(***************************************************************************)
(* Properties                                                              *)
(***************************************************************************)

EqIgnoreCase(a, b) == toLowerCase(a) = toLowerCase(b)

\* The actors the index holds.
Candidates == {linearUsers[n].val : n \in DOMAIN linearUsers}

\* The candidates an override value names: by display name or by email,
\* whatever the case.
NamedActors(v) ==
  {a \in Candidates : EqIgnoreCase(a.name, v)
                      \/ (a.email # NULL /\ EqIgnoreCase(a.email, v))}

\* The candidates, not named by the override, that the profile's email finds.
EmailRivals(githubUser, v) ==
  {a \in Candidates : /\ a.email # NULL /\ githubUser.email # NULL
                      /\ EqIgnoreCase(a.email, githubUser.email)
                      /\ a \notin NamedActors(v)}

OverrideAndEmailBothPossible ==
  /\ pc = "resolved"
  /\ fnArg.login \in DOMAIN USER_MAPPING
  /\ NamedActors(USER_MAPPING[fnArg.login]) # {}
  /\ EmailRivals(fnArg, USER_MAPPING[fnArg.login]) # {}

\* C5: when the handle has an override naming a candidate and the profile's
\* email is also the email of another candidate, matchUserByNameOrEmail
\* returns the actor the override names, not the one the email finds.
C5_OverrideWins ==
  OverrideAndEmailBothPossible =>
    fnRes \in {a.id : a \in NamedActors(USER_MAPPING[fnArg.login])}

C5_Witness ==
  /\ OverrideAndEmailBothPossible
  /\ fnRes = "U2"
  /\ \E a \in EmailRivals(fnArg, USER_MAPPING[fnArg.login]) : a.id = "U1"

\* A label holds the token p<digit>, in either case of the letter.
HasToken(label, digit) ==
  \E n \in 1..(Len(label) - 1) : label[n] \in {"p", "P"} /\ label[n + 1] = digit

RankedPriority(label) ==
  IF label = NULL \/ label = <<>> THEN 0
  ELSE IF HasToken(label, "1") THEN 1
  ELSE IF HasToken(label, "2") THEN 2
  ELSE IF HasToken(label, "3") THEN 3
  ELSE 0

\* C6: mapGithubPriorityToLinear returns a value in {0,1,2,3} for every label,
\* the empty one and null: 1 when the label holds p1 in either case, else 2
\* for p2, else 3 for p3, else 0 ("p1-urgent" gives 1, "P2" 2, "" and null 0).
C6_PriorityTotalRanked ==
  pc = "translated" =>
    /\ fnRes \in {0, 1, 2, 3}
    /\ fnRes = RankedPriority(fnArg)
    /\ (fnArg = <<"p","1","-","u","r","g","e","n","t">> => fnRes = 1)
    /\ (fnArg = <<"P","2">> => fnRes = 2)
    /\ (fnArg \in {<<>>, NULL} => fnRes = 0)

C6_Witness ==
  pc = "translated" /\ fnArg = <<"P","3","p","1">> /\ fnRes = 1

\* The calls that reach a tracker, by kind.
SourceCollectionOps ==
  {"github.rateLimit", "github.listForRepo", "github.graphql",
   "github.projects.get", "github.projects.listColumns", "github.projects.listCards"}
DestinationIssueOps ==
  {"linear.issues.batch", "linear.issues", "linear.user", "linear.issue", "linear.update"}

CalledOps == {trace[n].op : n \in DOMAIN trace}
FailedOps == {trace[n].op : n \in {m \in DOMAIN trace : ~trace[m].ok}}

\* The field a script synchronises.
Synced(d) == IF mode = "assignee" THEN d.assigneeId ELSE d.priority

\* The positions of the intents applied so far that target a destination issue.
AppliedTo(id) ==
  {n \in DOMAIN execLog : execLog[n] = "applied" /\ updates[n].linearIssue = id}

\* What the synced field of an issue must hold: the new value of the last
\* intent applied to it, its value when the run began if none was.
Expected(d0) ==
  IF AppliedTo(d0.id) = {} THEN Synced(d0)
  ELSE updates[CHOOSE n \in AppliedTo(d0.id) : \A m \in AppliedTo(d0.id) : m <= n].new

\* C2: whatever subset of the update calls fails, every intent whose calls
\* succeed is applied, a failing intent changes nothing, every intent is
\* attempted, and the run ends normally: the catch of the sync function is
\* never reached from the loop over the intents.
C2_ExecutorIsolation ==
  /\ \A n \in DOMAIN linIssues : Synced(linIssues[n]) = Expected(linIssues0[n])
  /\ pc \in {"fetch", "update"} => Len(execLog) = k - 1 /\ k <= Len(updates)
  /\ pc = "done" => Len(execLog) = Len(updates) /\ exitCode = 0
  /\ pc = "caught" => execLog = <<>>

C2_Witness ==
  /\ pc = "done"
  /\ execLog = <<"applied", "failed", "applied">>
  /\ \E n \in DOMAIN linIssues : Synced(linIssues[n]) # Synced(linIssues0[n])

FirstRunClean ==
  /\ run = 2
  /\ firstRun.pc = "done"
  /\ \A n \in DOMAIN firstRun.execLog : firstRun.execLog[n] = "applied"

\* C1: when the first run applied every update it planned, a second run over
\* the same source issues plans no update.
C1_Idempotent ==
  (FirstRunClean /\ githubIssues = firstRun.githubIssues) => updates = <<>>

AnyAbsent == \E key \in RequiredKeys : env[key] = NULL

\* C9: with a required setting absent the process exits with status 1 at its
\* first step and no call to either tracker is made.
C9_ConfigFailFast ==
  AnyAbsent =>
    /\ trace = <<>>
    /\ pc \in {"start", "exit"}
    /\ pc = "exit" => exitCode = 1

C9_Witness ==
  /\ pc = "exit" /\ exitCode = 1 /\ trace = <<>>
  /\ env.projectNumber = NULL
  /\ \A key \in RequiredKeys \ {"projectNumber"} : ~Falsy(env[key])

\* All fields of a destination issue but the synced one.
Unsynced(d) ==
  IF mode = "assignee" THEN [d EXCEPT !.assigneeId = NoId] ELSE [d EXCEPT !.priority = 0]

\* C10: no step of either script changes the source tracker's issues or
\* project, and the only thing a step changes in the destination is the
\* synced field (assignee or priority) of destination issues.
C10_OneWay ==
  [][/\ ghPages' = ghPages /\ ghProject' = ghProject
     /\ linTeams' = linTeams /\ linUsers' = linUsers
     /\ DOMAIN linIssues' = DOMAIN linIssues
     /\ \A n \in DOMAIN linIssues : Unsynced(linIssues'[n]) = Unsynced(linIssues[n])]_vars

C10_Witness ==
  /\ pc = "done" /\ "applied" \in {execLog[n] : n \in DOMAIN execLog}
  /\ linIssues # linIssues0

\* A call of the assignee collector or of the REST collector failed.
CollectorCallFailed == (FailedOps \cap SourceCollectionOps) \ {"github.graphql"} # {}

\* C8 as amended: a failed call of the assignee collector or of the REST
\* collector makes the collector return nothing, without raising, and the run
\* ends with no destination issue query and no update.
C8_CollectionFailureDegrades ==
  CollectorCallFailed =>
    /\ githubIssues = <<>>
    /\ pc \in {"collected", "nothing"}
    /\ exitCode \in {-1, 0}
    /\ CalledOps \cap DestinationIssueOps = {}
    /\ linIssues = linIssues0

\* Page 2 fails after page 1 was read: what page 1 gave is dropped.
C8_Witness ==
  /\ pc = "nothing" /\ githubIssues = <<>>
  /\ Len(trace) >= 2
  /\ trace[Len(trace)].op = "github.listForRepo" /\ trace[Len(trace)].arg = 2
  /\ ~trace[Len(trace)].ok
  /\ trace[Len(trace) - 1].op = "github.listForRepo" /\ trace[Len(trace) - 1].ok
  /\ pageAssigned(ListForRepo(1)) # <<>>

\* C8 as stated: any failed source call during collection, the GraphQL query
\* included, leaves nothing collected and no destination issue call.
C8_AnyFailureDegrades ==
  (FailedOps \cap SourceCollectionOps # {}) =>
    /\ githubIssues = <<>>
    /\ CalledOps \cap DestinationIssueOps = {}

\* The last call was a query for the matches of one source issue, and it
\* answered: allMatchingIssues is its result.
Queried ==
  /\ trace # <<>>
  /\ trace[Len(trace)].op = "linear.issues"
  /\ trace[Len(trace)].ok

\* The source issue that query was made for.
QueriedIssue ==
  LET number == trace[Len(trace)].arg IN
  githubIssues[CHOOSE n \in DOMAIN githubIssues : githubIssues[n].number = number]

Matched(d) == \E n \in DOMAIN allMatchingIssues : allMatchingIssues[n] = d

Range(s) == {s[n] : n \in DOMAIN s}

NameChars == Range(UpperChars) \cup Range(LowerChars) \cup Range(Digits) \cup {"-", "_", "."}

\* The text holds a reference to issue `number` of the configured repository:
\* the token owner/repo/issues/number standing on its own, neither inside a
\* longer owner name nor followed by further digits.
ReferencesIssue(text, number) ==
  LET token == issueNumberPattern(env, number) IN
  /\ text # NULL
  /\ \E p \in 1..Len(text) :
       /\ p + Len(token) - 1 <= Len(text)
       /\ SubSeq(text, p, p + Len(token) - 1) = token
       /\ p > 1 => text[p - 1] \notin NameChars
       /\ p + Len(token) <= Len(text) => text[p + Len(token)] \notin Range(Digits)

\* C3: a destination issue is among the matches of source issue n only if its
\* description references issue n of the configured repository; one that
\* only references another number is never matched to n.
C3_MatcherSound ==
  Queried =>
    \A n \in DOMAIN allMatchingIssues :
      ReferencesIssue(allMatchingIssues[n].description, QueriedIssue.number)

\* Leading and trailing spaces removed, one at a time.
RECURSIVE Stripped(_)
Stripped(s) ==
  IF s = <<>> THEN s
  ELSE IF Head(s) = " " THEN Stripped(Tail(s))
  ELSE IF s[Len(s)] = " " THEN Stripped(SubSeq(s, 1, Len(s) - 1))
  ELSE s

\* The description holds the token of the source issue as a piece of text.
HoldsToken(d, number) ==
  /\ d.description # NULL
  /\ \E p \in 1..Len(d.description), q \in 1..Len(d.description) :
       SubSeq(d.description, p, q) = issueNumberPattern(env, number)

\* C4 as amended: a destination issue is among the matches of a source issue
\* exactly when it belongs to the configured team, its description holds the
\* source issue's token, its title as stored equals the source title with
\* leading and trailing whitespace removed and, in the priority sync, it is
\* not completed.
C4_MatchRelation ==
  Queried =>
    \A n \in DOMAIN linIssues :
      LET d == linIssues[n] IN
      Matched(d) <=>
        /\ d.team = teamId
        /\ HoldsToken(d, QueriedIssue.number)
        /\ d.title = Stripped(QueriedIssue.title)
        /\ mode = "priority" => d.stateType # "completed"

\* A source title with surrounding whitespace found its destination issue.
C4_Witness ==
  /\ Queried
  /\ allMatchingIssues # <<>>
  /\ QueriedIssue.title # Stripped(QueriedIssue.title)
  /\ \E n \in DOMAIN linIssues :
       ~Matched(linIssues[n]) \/ linIssues[n].title # <<"T">>

\* C4 as stated: the matches are exactly the destination issues whose
\* description holds the token and whose title equals the source title once
\* both are trimmed; nothing else about the destination issue counts.
C4_TrimBothSides ==
  Queried =>
    \A n \in DOMAIN linIssues :
      LET d == linIssues[n] IN
      Matched(d) <=>
        /\ HoldsToken(d, QueriedIssue.number)
        /\ Stripped(d.title) = Stripped(QueriedIssue.title)

\* C7: page k+1 is requested only if the quota GitHub has left once page k
\* has been fetched is not under the low-water mark of 10.
C7_QuotaEarlyExit ==
  \A n \in DOMAIN trace :
    (trace[n].op = "github.listForRepo" /\ trace[n].arg > 1) =>
      ~QuotaStop(trace[n].quota)

MatchingOps == {"linear.issues.batch", "linear.issues"}
ResolutionOps == {"github.getByUsername"}
PlanningOps == MatchingOps \cup ResolutionOps \cup {"linear.user"}
ExecutionOps == {"linear.issue", "linear.update"}

\* Every call of the run with an operation of A was made before every call
\* with an operation of B.
Before(A, B) ==
  \A a, b \in DOMAIN trace :
    (trace[a].op \in A /\ trace[b].op \in B) => a < b

\* C11 as amended: collection ends before the first matching query; matching,
\* resolution and planning go source issue by source issue; every source
\* issue has been matched and planned before the first call of the execution
\* loop, so no query or planning read follows an update of the same run.
C11_StageOrder ==
  /\ Before(SourceCollectionOps, PlanningOps \cup ExecutionOps)
  /\ Before(PlanningOps, ExecutionOps)
  /\ (pc \in {"fetch", "update"} \/ CalledOps \cap ExecutionOps # {}) =>
       /\ i = Len(githubIssues) + 1
       /\ Len(execLog) <= Len(updates)

\* Two source issues were matched and resolved in turn, then an update applied.
C11_Witness ==
  /\ pc = "done" /\ mode = "assignee"
  /\ \E a, b, c, d \in DOMAIN trace :
       /\ a < b /\ b < c /\ c < d
       /\ trace[a].op = "linear.issues"
       /\ trace[b].op = "github.getByUsername"
       /\ trace[c].op = "linear.issues"
       /\ trace[d].op = "linear.update" /\ trace[d].ok

\* C11 as stated: on top of the above, every matching query of the run is
\* made before the first identity resolution.
C11_MatchingBeforeResolution ==
  /\ C11_StageOrder
  /\ Before(MatchingOps, ResolutionOps)

\* Calls that concern one item of the matching and planning loop: the query
\* for one source issue, the read of one destination issue's assignee.
ItemOps == {"linear.issues", "linear.user"}

\* C12: a failed query for one source issue, or a failed read of one
\* destination issue's assignee, never ends the run in the catch of the sync
\* function; the loop goes on and what was planned is executed.
C12_NarrowContainment ==
  (FailedOps \cap ItemOps # {}) =>
    /\ pc # "caught"
    /\ pc = "done" => Len(execLog) = Len(updates)

\* The issue carries the field the running sync tracks.
Tracked(x) ==
  IF mode = "assignee" THEN x.assignee # NULL
  ELSE x.label # NULL /\ hasPriorityToken(x.label)

\* The numbers of the open issues of the repository that are no pull request
\* and carry the tracked field.
TrackedNumbers ==
  {x.number : x \in {y \in Range(Flatten(ghPages)) : ~y.pull_request /\ Tracked(y)}}

\* No call of the collector that produced the result failed, and GitHub never
\* had fewer than 10 requests left.
CleanCollection ==
  /\ FailedOps \ {"github.graphql"} = {}
  /\ \A n \in DOMAIN trace : ~QuotaStop(trace[n].quota)
  /\ ~QuotaStop(ghQuota)

\* C13: a collector that ran with no failed call and enough quota returns
\* every open issue that is no pull request and carries the tracked field.
C13_CollectionComplete ==
  (pc = "collected" /\ CleanCollection) =>
    {githubIssues[n].number : n \in DOMAIN githubIssues} = TrackedNumbers

\* How many lines of the execution log record this outcome.
Logged(outcome) == Cardinality({n \in DOMAIN execLog : execLog[n] = outcome})

\* How many calls of the run had this operation and this result.
Calls(op, ok) == Cardinality({n \in DOMAIN trace : trace[n].op = op /\ trace[n].ok = ok})

\* The execution loop has run to its end.
ExecutionFinished == Ended /\ CalledOps \cap ExecutionOps # {}

\* C14 as amended: when the execution loop ends, the log holds one outcome
\* line per planned intent; the success lines are as many as the update calls
\* that succeeded, the failure lines as many as the intents whose fetch or
\* update call failed.
C14_OutcomePerIntent ==
  ExecutionFinished =>
    /\ pc = "done"
    /\ Logged("applied") + Logged("failed") = Len(updates)
    /\ Logged("applied") = Calls("linear.update", TRUE)
    /\ Logged("failed") = Calls("linear.issue", FALSE) + Calls("linear.update", FALSE)

\* An intent failed before its update call was made, another was applied.
C14_Witness ==
  /\ ExecutionFinished
  /\ Calls("linear.issue", FALSE) = 1
  /\ Calls("linear.update", FALSE) = 0
  /\ Logged("applied") >= 1

\* C14 as stated, the log lines taken as the report: applied plus failed is
\* the number of planned intents, applied is the number of update calls that
\* succeeded and failed the number of update calls that failed.
C14_ReportCounts ==
  ExecutionFinished =>
    /\ Logged("applied") + Logged("failed") = Len(updates)
    /\ Logged("applied") = Calls("linear.update", TRUE)
    /\ Logged("failed") = Calls("linear.update", FALSE)

\* The destination actors whose email is x, whatever the case.
ByEmail(x) ==
  {a \in Range(linUsers) : x # NULL /\ a.email # NULL /\ EqIgnoreCase(a.email, x)}

\* The destination actors whose display name is x, whatever the case.
ByName(x) == {a \in Range(linUsers) : x # NULL /\ EqIgnoreCase(a.name, x)}

\* The actors the first strategy with a hit finds: email, then display name,
\* then the handle taken as a display name.
FirstHit(githubUser) ==
  IF ByEmail(githubUser.email) # {} THEN ByEmail(githubUser.email)
  ELSE IF ByName(githubUser.name) # {} THEN ByName(githubUser.name)
  ELSE ByName(githubUser.login)

\* This step is a call of matchUserByNameOrEmail for a handle that is not
\* cached and has no override, the actor list having been indexed.
FreshResolution ==
  /\ pc' = "resolved"
  /\ fnArg'.login \notin DOMAIN userMappingCache
  /\ Falsy(MappingOf(USER_MAPPING, fnArg'.login))
  /\ linearUsers # <<>>

\* C15: with no override and nothing cached, the resolver returns the actor
\* found by the email, else the one found by the display name, else the one
\* found by the handle as a display name, else none; a later strategy's hit
\* is never returned when an earlier strategy has one.
C15_FallbackOrder ==
  [][FreshResolution =>
       IF FirstHit(fnArg') = {} THEN fnRes' = NoId
       ELSE fnRes' \in {a.id : a \in FirstHit(fnArg')}]_vars

\* C16: an id returned without an override is the id of an actor whose email
\* is the profile's email, or whose display name is the profile's display
\* name or handle; and that actor is the only one its key finds.
C16_NoFalsePositive ==
  [][(FreshResolution /\ fnRes' # NoId) =>
       LET g == fnArg'
           sound == ByEmail(g.email) \cup ByName(g.name) \cup ByName(g.login)
       IN /\ fnRes' \in {a.id : a \in sound}
          /\ Cardinality(FirstHit(g)) = 1]_vars

\* The open issues of the repository whose label translates to 0.
Unranked ==
  {x \in Range(Flatten(ghPages)) :
     ~x.pull_request /\ mapGithubPriorityToLinear(x.label) = 0}

\* The destination issue is the one a query for the source issue would find.
WouldMatch(x, d) ==
  /\ d.team = teamId /\ d.stateType # "completed"
  /\ d.title = Stripped(x.title)
  /\ HoldsToken(d, x.number)

\* Planning is over and no call failed.
PlannedCleanly == pc \in {"done", "fetch"} /\ FailedOps = {}

\* C19 as amended: a source issue whose label translates to 0 is not
\* collected, so it is never queried for and no intent is planned on its
\* behalf; every planned priority intent carries a new priority of 1, 2 or 3
\* that differs from the current one.
C19_NoResetToZero ==
  mode = "priority" =>
    /\ \A n \in DOMAIN githubIssues :
         mapGithubPriorityToLinear(githubIssues[n].priority) \in 1..3
    /\ \A n \in DOMAIN trace, x \in Unranked :
         trace[n].op = "linear.issues" => trace[n].arg # x.number
    /\ \A n \in DOMAIN updates :
         /\ updates[n].new \in 1..3 /\ updates[n].new # updates[n].old
         /\ \A x \in Unranked : updates[n].githubIssue # x.number

\* An issue with an unrecognised label has a destination issue of priority 2;
\* planning ended with an intent for another issue and none for this one.
C19_Witness ==
  /\ PlannedCleanly /\ updates # <<>>
  /\ \E x \in Unranked, n \in DOMAIN linIssues :
       /\ x.label = <<"x">>
       /\ WouldMatch(x, linIssues[n]) /\ linIssues[n].priority = 2

\* C19 as stated: for a source issue whose label translates to 0 and a
\* matching destination issue of non-zero priority, an intent with new
\* priority 0 is planned.
C19_ResetToZero ==
  PlannedCleanly =>
    \A x \in Unranked, n \in DOMAIN linIssues :
      (WouldMatch(x, linIssues[n]) /\ linIssues[n].priority # 0) =>
        \E u \in DOMAIN updates :
          /\ updates[u].linearIssue = linIssues[n].id
          /\ updates[u].githubIssue = x.number
          /\ updates[u].new = 0

\* The handle of the collected issue with this number.
HandleOf(number) ==
  githubIssues[CHOOSE n \in DOMAIN githubIssues :
                 githubIssues[n].number = number].assignee

\* The profile lookups of the run.
Lookups == {n \in DOMAIN trace : trace[n].op = "github.getByUsername"}

\* C17: within a run the profile of a handle is looked up at most once, and
\* so, the resolution following the lookup, a handle is resolved at most once.
C17_ResolveOnce ==
  \A a, b \in Lookups :
    a < b => HandleOf(trace[a].arg) # HandleOf(trace[b].arg)

\* C18: an entry of userMappingCache is never removed or changed, and a
\* resolution of a cached handle returns the cached id whatever display name
\* and email come with it.
C18_MonotoneCache ==
  [][/\ \A l \in DOMAIN userMappingCache :
          l \in DOMAIN userMappingCache' /\ userMappingCache'[l] = userMappingCache[l]
     /\ (pc' = "resolved" /\ fnArg'.login \in DOMAIN userMappingCache) =>
          fnRes' = userMappingCache[fnArg'.login]]_vars

\* A cached handle came with a profile that would resolve to another actor,
\* and the cached id was returned.
C18_Witness ==
  /\ pc = "resolved"
  /\ fnArg.login \in DOMAIN userMappingCache
  /\ fnRes = userMappingCache[fnArg.login]
  /\ matchUserByNameOrEmail(fnArg, linearUsers, USER_MAPPING,
                            EmptyTable).id \notin {NoId, fnRes}

\* Corollary of C18, for the planning loop: all assignee intents of a run
\* that come from one handle carry one id.
SameHandleSameId ==
  \A a, b \in DOMAIN updates :
    HandleOf(updates[a].githubIssue) = HandleOf(updates[b].githubIssue) =>
      updates[a].new = updates[b].new

\* The ids of the destination actors.
ActorIds == {a.id : a \in Range(linUsers)}

\* The collected issues, by number.
CollectedNumbers == {githubIssues[n].number : n \in DOMAIN githubIssues}

\* The profile of the assignee of this source issue was fetched.
DetailsFetched(number) ==
  \E n \in Lookups : trace[n].arg = number /\ trace[n].ok

\* C20: every planned assignee intent is for a collected issue, which has an
\* assignee whose profile was fetched and resolved; its new assignee id is
\* the id of a destination actor and differs from the current one; an issue
\* skipped for want of a profile or of an actor does not end the loop over
\* the source issues, and no issue without assignee is collected.
C20_SkipOnAbsence ==
  mode = "assignee" =>
    /\ \A n \in DOMAIN githubIssues : githubIssues[n].assignee # NULL
    /\ \A n \in DOMAIN updates :
         LET u == updates[n] IN
         /\ u.githubIssue \in CollectedNumbers
         /\ DetailsFetched(u.githubIssue)
         /\ u.new # NoId /\ u.new \in ActorIds
         /\ u.new # u.old
         /\ HandleOf(u.githubIssue) \in DOMAIN userMappingCache
         /\ userMappingCache[HandleOf(u.githubIssue)] = u.new
    /\ (pc \in {"done", "fetch", "update"} /\ githubIssues # <<>>) =>
         \A number \in CollectedNumbers :
           \E n \in DOMAIN trace : trace[n].op = "linear.issues" /\ trace[n].arg = number

\* The profile of one issue's assignee could not be fetched; the other issue
\* was planned and its intent applied.
C20_Witness ==
  /\ mode = "assignee" /\ pc = "done"
  /\ \E n \in Lookups : ~trace[n].ok /\ ~DetailsFetched(trace[n].arg)
  /\ \E n \in DOMAIN execLog : execLog[n] = "applied"

\* The requests for a page of the listing, in the order they were made.
PageRequests == SelectSeq(trace, LAMBDA c : c.op = "github.listForRepo")

\* No call has failed and the figure read before the loop is not under 10.
CleanPaging == FailedOps = {} /\ rateRemaining >= 10

PagingProtocol ==
  CleanPaging =>
    /\ \A n \in DOMAIN PageRequests : PageRequests[n].arg = n
    /\ \A n \in 1..(Len(PageRequests) - 1) : ListForRepo(n) # <<>>
    /\ pc = "page" => page = Len(PageRequests) + 1

PagingResult ==
  CleanPaging /\ pc = "collected" =>
    /\ PageRequests # <<>>
    /\ ListForRepo(Len(PageRequests)) = <<>>
    /\ githubIssues = pageAssigned(Flatten(SubSeq(ghPages, 1, Len(PageRequests) - 1)))

\* C21: absent errors and quota stop, the assignee collector requests pages
\* 1, 2, 3, ... one after the other, requests nothing after the first empty
\* page, and ends; it then holds the assigned issues of all non-empty pages
\* in page order.
C21_Pagination ==
  /\ []PagingProtocol
  /\ []PagingResult
  /\ <>(pc = "collected")

\* The collector has ended after two non-empty pages and the empty one, both
\* pages having contributed an issue.
C21_Witness ==
  /\ CleanPaging /\ pc = "collected"
  /\ Len(PageRequests) = 3
  /\ Len(githubIssues) = 2
  /\ githubIssues[1].number \in {i2.number : i2 \in Range(ghPages[1])}
  /\ githubIssues[2].number \in {i2.number : i2 \in Range(ghPages[2])}

\* The calls of one kind made for the n-th planned intent.
CallsFor(op, n) == {c \in DOMAIN trace : trace[c].op = op /\ trace[c].arg = n}

\* The execution loop has gone through every planned intent.
AllConsumed == pc = "done" /\ updates # <<>>

\* C22 (as amended): each planned intent is taken up once: its destination
\* issue is fetched once, and the update call is made once when that fetch
\* succeeded and not at all when it failed; no call is made a second time for
\* the same intent, whatever its outcome.
C22_ConsumedOnce ==
  \A n \in DOMAIN updates :
    /\ Cardinality(CallsFor("linear.issue", n)) <= 1
    /\ Cardinality(CallsFor("linear.update", n)) <= 1
    /\ \A u \in CallsFor("linear.update", n) :
         \E f \in CallsFor("linear.issue", n) : f < u /\ trace[f].ok
    /\ AllConsumed =>
         /\ Cardinality(CallsFor("linear.issue", n)) = 1
         /\ \A f \in CallsFor("linear.issue", n) :
              trace[f].ok <=> CallsFor("linear.update", n) # {}

\* A finished execution of two intents: the update of the first failed and
\* the second was applied.
C22_Witness ==
  /\ AllConsumed /\ Len(updates) >= 2
  /\ \E u \in CallsFor("linear.update", 1) : ~trace[u].ok
  /\ \E u \in CallsFor("linear.update", 2) : trace[u].ok

\* C22 (as stated): once execution has finished, exactly one update call has
\* been attempted for every planned intent.
C22_OneUpdateCallPerIntent ==
  AllConsumed =>
    \A n \in DOMAIN updates : Cardinality(CallsFor("linear.update", n)) = 1

\* Some team of the workspace has exactly the configured name or key.
TeamKnown ==
  \E t \in Range(linTeams) : t.name = env.teamKey \/ t.key = env.teamKey

TeamListed == \E n \in DOMAIN trace : trace[n].op = "linear.teams" /\ trace[n].ok

\* C23: when no team has exactly the configured name or key, or the team
\* listing fails, the run ends with status 1 and the team listing is the only
\* call it has made: no source collection, no destination query, no update.
C23_TeamLookupFatal ==
  /\ CalledOps \ {"linear.teams"} # {} => TeamKnown /\ TeamListed
  /\ CalledOps # {} /\ ~(TeamKnown /\ TeamListed) =>
       /\ pc = "exit" /\ exitCode = 1
       /\ Len(trace) = 1
       /\ linIssues = linIssues0

\* The configured key differs from a team's key by case only: the listing
\* succeeded and the run has ended with status 1.
C23_Witness ==
  /\ pc = "exit" /\ exitCode = 1 /\ TeamListed
  /\ env.teamKey = TeamKeyLower
  /\ \E t \in Range(linTeams) : t.key = TeamKeyENG

\* The calls of getIssuesWithPriorityREST.
SecondaryOps ==
  {"github.rateLimit", "github.listForRepo", "github.projects.get",
   "github.projects.listColumns", "github.projects.listCards"}

PrimaryCalls == {n \in DOMAIN trace : trace[n].op = "github.graphql"}
SecondaryCalls == {n \in DOMAIN trace : trace[n].op \in SecondaryOps}

\* The priority collector has returned.
PriorityCollected ==
  /\ mode = "priority" /\ PrimaryCalls # {}
  /\ pc \notin {"graphql", "restRate", "restIssues", "restProject", "restColumns",
                 "restCards"}

\* C24: the priority collector makes the project query first and once; the
\* REST scan is entered exactly when that query failed, and its result is then
\* the collector's result; a query that succeeded, with nothing to collect or
\* without the priority field, is never followed by the REST scan; when the
\* REST scan fails too the collector returns nothing and the run goes on.
C24_StrategyFallback ==
  mode = "priority" =>
    /\ Cardinality(PrimaryCalls) <= 1
    /\ \A r \in SecondaryCalls : \E g \in PrimaryCalls : g < r /\ ~trace[g].ok
    /\ \A g \in PrimaryCalls :
         ~trace[g].ok => pc = "restRate" \/ (g + 1) \in SecondaryCalls
    /\ PriorityCollected =>
         \A g \in PrimaryCalls :
           IF trace[g].ok
           THEN githubIssues = graphqlCollected(env, ghProject)
           ELSE IF \E r \in SecondaryCalls : ~trace[r].ok
           THEN githubIssues = <<>> /\ pc \in {"collected", "nothing"}
           ELSE githubIssues = restCollected(issues, projectCards)

\* The query failed, the REST scan went through and returned an issue.
C24_Witness ==
  /\ PriorityCollected
  /\ \E g \in PrimaryCalls : ~trace[g].ok
  /\ \A r \in SecondaryCalls : trace[r].ok
  /\ githubIssues # <<>>

\* Position of an intent's source issue in the collected sequence, and of its
\* destination issue in the workspace listing, whose order every query result
\* keeps.
SrcPos(u) == CHOOSE n \in DOMAIN githubIssues : githubIssues[n].number = u.githubIssue
DstPos(u) == CHOOSE n \in DOMAIN linIssues0 : linIssues0[n].id = u.linearIssue

InPlanOrder(a, b) ==
  \/ SrcPos(a) < SrcPos(b)
  \/ SrcPos(a) = SrcPos(b) /\ DstPos(a) < DstPos(b)

\* The intents the inputs determine for one collected issue: every matched
\* destination issue, in the order of the query result, whose synced field
\* differs from the translated priority or the resolved assignee.
IntentsFor(githubIssue) ==
  LET nodes == MatchingIssues(linIssues0, mode, teamId, env, githubIssue) IN
  IF mode = "priority"
  THEN LET new == mapGithubPriorityToLinear(githubIssue.priority) IN
       MapSeq(SelectSeq(nodes, LAMBDA d : d.priority # new),
              LAMBDA d : UpdateInfo(d, githubIssue, new, d.priority))
  ELSE LET new == matchUserByNameOrEmail(
                    GitHubUserDetails(GhUserOf(githubIssue.assignee)),
                    linearUsers, USER_MAPPING, EmptyTable).id
       IN IF new = NoId THEN <<>>
          ELSE MapSeq(SelectSeq(nodes, LAMBDA d : d.assigneeId # new),
                      LAMBDA d : UpdateInfo(d, githubIssue, new, d.assigneeId))

ExpectedPlan == Flatten(MapSeq(githubIssues, IntentsFor))

PlanComplete == pc \in {"fetch", "update", "done"}

ExecutionCalls == {n \in DOMAIN trace : trace[n].op \in ExecutionOps}

\* C25: the planned intents are ordered by the position of their source issue
\* in the collected sequence, then by the position of their destination issue
\* in the query result; the calls of the execution loop follow that order; and
\* the complete plan is the one sequence the collected issues, the workspace
\* and the settings determine, provided every profile lookup was answered.
C25_IntentOrder ==
  /\ \A a, b \in DOMAIN updates : a < b => InPlanOrder(updates[a], updates[b])
  /\ \A a, b \in ExecutionCalls : a < b => trace[a].arg <= trace[b].arg
  /\ PlanComplete /\ "github.getByUsername" \notin FailedOps => updates = ExpectedPlan

\* Two intents whose source issues are in collected order while their
\* destination issues are in the opposite order of the listing, both executed.
C25_Witness ==
  /\ pc = "done" /\ Len(updates) = 2
  /\ SrcPos(updates[1]) < SrcPos(updates[2])
  /\ DstPos(updates[1]) > DstPos(updates[2])
  /\ \E a, b \in ExecutionCalls : trace[a].arg = 1 /\ trace[b].arg = 2

\* C26: no two planned intents of a run target the same destination issue
\* with different new values.
C26_ConflictFree ==
  \A a, b \in DOMAIN updates :
    updates[a].linearIssue = updates[b].linearIssue => updates[a].new = updates[b].new

\* The destination issues that were completed when the run began.
CompletedIssues == {n \in DOMAIN linIssues0 : linIssues0[n].stateType = "completed"}

\* C27: the priority sync plans no intent for a completed destination issue
\* and leaves its priority as it was.
C27_CompletedFrozen ==
  mode = "priority" =>
    \A n \in CompletedIssues :
      /\ \A u \in DOMAIN updates : updates[u].linearIssue # linIssues0[n].id
      /\ linIssues[n].priority = linIssues0[n].priority

\* A priority run has applied an update while a completed issue, whose title
\* and description match a collected source issue and whose priority differs
\* from the translated one, has been left alone.
C27_Witness ==
  /\ mode = "priority" /\ pc = "done"
  /\ \E n \in DOMAIN execLog : execLog[n] = "applied"
  /\ \E n \in CompletedIssues, g \in DOMAIN githubIssues :
       /\ linIssues0[n].title = trim(githubIssues[g].title)
       /\ HoldsToken(linIssues0[n], githubIssues[g].number)
       /\ linIssues0[n].team = teamId
       /\ linIssues0[n].priority # mapGithubPriorityToLinear(githubIssues[g].priority)

\* The assignee sync has given a completed destination issue a new assignee.
CompletedReassigned ==
  /\ mode = "assignee"
  /\ \E n \in CompletedIssues : linIssues[n].assigneeId # linIssues0[n].assigneeId

\* The columns the scan reads, and those it has read so far.
ScannedColumns == scannedColumns(ghProject.columns)
ColumnsRead == 1..(col - 1)

\* The issue numbers of the cards of a column.
NumbersOf(cards) == {contentIssueNumber(cards[q]) : q \in DOMAIN cards} \ {0}

Ranked(c) == columnPriority(ScannedColumns[c].name) # NONE

\* The entries recorded for an issue number.
Entries(number) == {e \in DOMAIN projectCards : projectCards[e].issueNumber = number}

\* What the record holds for an issue, given the columns in which it has a
\* card: one entry, with the priority of the first of them that has one.
RecordedFrom(number, holders) ==
  LET ranked == {c \in holders : Ranked(c)} IN
  /\ Cardinality(Entries(number)) = (IF holders = {} THEN 0 ELSE 1)
  /\ holders # {} =>
       cardPriority(projectCards, number) =
         IF ranked = {} THEN NONE
         ELSE columnPriority(ScannedColumns[CHOOSE c \in ranked :
                                             \A r \in ranked : c <= r].name)

\* C28: after each column read, an issue with cards in the columns read so
\* far has one recorded entry, whose priority is that of the first of those
\* columns whose name holds p1, p2 or p3 ("none" when none does).
C28_FirstRankedColumnWins ==
  \A number \in UNION {NumbersOf(ScannedColumns[c].cards) : c \in DOMAIN ScannedColumns} :
    RecordedFrom(number, {c \in ColumnsRead : number \in NumbersOf(ScannedColumns[c].cards)})

\* The same, counting only the cards a request for a column returns.
FirstRankedListedColumnWins ==
  \A number \in UNION {NumbersOf(ScannedColumns[c].cards) : c \in DOMAIN ScannedColumns} :
    RecordedFrom(number,
      {c \in ColumnsRead :
         number \in NumbersOf(first(ScannedColumns[c].cards, CardsPerPage))})

\* An issue with a card in an unranked column, then in two ranked ones, all
\* read.
SeveralColumnsRead ==
  /\ pc = "collected" /\ FailedOps = {}
  /\ \E a, b, c \in ColumnsRead :
       /\ a < b /\ b < c /\ ~Ranked(a) /\ Ranked(b) /\ Ranked(c)
       /\ \A x \in {a, b, c} : 1 \in NumbersOf(ScannedColumns[x].cards)


============================================================================
